---- MODULE Spec2Model ----
(***************************************************************************)
(* Feed import subsystem of megashop: the run registry of the HTTP         *)
(* handlers (StartImport / StopImport / GetImportProgress) and the         *)
(* ImportEngine (Run, the per-item callback, processItem, category         *)
(* resolution, completeImport / failImport), over the products,            *)
(* categories, import_history and feeds tables.                            *)
(*                                                                         *)
(* Strings are sequences of tokens (a token is a word or a delimiter), so  *)
(* that splitting, concatenation and formatting are computed.  A uuid is   *)
(* the pair <<engine, n>>: the n-th uuid.New() of that engine's goroutine. *)
(***************************************************************************)
EXTENDS Integers, Sequences, FiniteSets, TLC

\* ------------------------------------------------------------------ bounds

\* StartImport requests (each creates at most one engine).
MaxStarts == 2
\* Requests to the other handlers (StopImport, GetImportProgress, and the
\* product, category and feed handlers), all kinds together.
MaxRequests == 1
\* The moments at which the encoder of one GetImportProgress response reads
\* the progress.
MaxReads == 2

\* ------------------------------------------------------------------ strings

Digits == <<"0", "1", "2", "3", "4", "5", "6", "7", "8", "9">>

DigitChars == {Digits[i] : i \in 1..10}

DigitVal(c) == CHOOSE i \in 0..9 : Digits[i + 1] = c

RECURSIVE ReplaceAll(_, _, _)
\* strings.ReplaceAll for a one-token pattern
ReplaceAll(s, from, to) ==
    IF s = <<>> THEN <<>>
    ELSE <<(IF Head(s) = from THEN to ELSE Head(s))>> \o ReplaceAll(Tail(s), from, to)

RECURSIVE Split(_, _)
\* strings.Split: the segments between the occurrences of sep; never empty
Split(s, sep) ==
    IF \A i \in 1..Len(s) : s[i] # sep THEN <<s>>
    ELSE LET k == CHOOSE i \in 1..Len(s) : s[i] = sep /\ \A j \in 1..(i - 1) : s[j] # sep
         IN  <<SubSeq(s, 1, k - 1)>> \o Split(SubSeq(s, k + 1, Len(s)), sep)

RECURSIVE TrimLeft(_)
TrimLeft(s) == IF s # <<>> /\ Head(s) = " " THEN TrimLeft(Tail(s)) ELSE s

RECURSIVE TrimRight(_)
TrimRight(s) ==
    IF s # <<>> /\ s[Len(s)] = " " THEN TrimRight(SubSeq(s, 1, Len(s) - 1)) ELSE s

\* strings.TrimSpace
TrimSpace(s) == TrimRight(TrimLeft(s))

RECURSIVE DigitsValue(_)
\* the number written by a sequence of digits (0 for the empty sequence)
DigitsValue(s) ==
    IF s = <<>> THEN 0 ELSE DigitsValue(SubSeq(s, 1, Len(s) - 1)) * 10 + DigitVal(s[Len(s)])

RECURSIVE NatToStr(_)
NatToStr(n) == IF n < 10 THEN <<Digits[n + 1]>> ELSE NatToStr(n \div 10) \o <<Digits[(n % 10) + 1]>>

\* ------------------------------------------------------------------ prices

\* A price is held in thousandths (the model's inputs have at most three decimals).
\* strconv.ParseFloat on a string of digits and periods: digits [ . digits ],
\* with a digit somewhere; anything else is a syntax error and the value 0.
ParseFloat(s) ==
    LET dots == {i \in 1..Len(s) : s[i] = "."}
    IN  IF Cardinality(dots) > 1 \/ Len(s) = Cardinality(dots) THEN 0
        ELSE LET d    == IF dots = {} THEN Len(s) + 1 ELSE CHOOSE i \in dots : TRUE
                 int  == SubSeq(s, 1, d - 1)
                 frac == SubSeq(s, d + 1, Len(s))
                 pad  == SubSeq(frac \o <<"0", "0", "0">>, 1, 3)
             IN  DigitsValue(int) * 1000 + DigitsValue(pad)

parsePrice(value) ==
    LET kept == SelectSeq(value, LAMBDA c : c \in DigitChars \cup {",", "."})
    IN  ParseFloat(ReplaceAll(kept, ",", "."))

\* fmt "%.2f" of a price: rounded to hundredths (no input of the model is a tie)
Format2f(price) ==
    LET cents == (price + 5) \div 10
        frac  == cents % 100
    IN  NatToStr(cents \div 100) \o <<".">> \o <<Digits[(frac \div 10) + 1], Digits[(frac % 10) + 1]>>

\* ------------------------------------------------------------------ case tables

\* strings.ToLower on the field names that getFieldValue and the feeds use
LowerKey(k) ==
    CASE k = "PRODUCTNAME"  -> "productname"
      [] k = "DESCRIPTION"  -> "description"
      [] k = "PRICE_VAT"    -> "price_vat"
      [] k = "EAN"          -> "ean"
      [] k = "SKU"          -> "sku"
      [] k = "ITEMGROUP_ID" -> "itemgroup_id"
      [] k = "IMGURL"       -> "imgurl"
      [] k = "CATEGORYTEXT" -> "categorytext"
      [] k = "ID"           -> "id"
      [] k = "SHOPITEM"     -> "shopitem"
      [] k = "ITEM_ID"      -> "item_id"
      [] k = "URL"          -> "url"
      [] k = "MANUFACTURER" -> "manufacturer"
      [] k = "STOCK_QUANTITY" -> "stock_quantity"
      [] k = "DELIVERY_DATE" -> "delivery_date"
      [] k = "PARAM"        -> "param"
      [] k = "Price"        -> "price"
      [] OTHER              -> k

\* strings.ToLower on one token of a value
LowerTok(t) ==
    CASE t = "A" -> "a"
      [] t = "B" -> "b"
      [] t = "C" -> "c"
      [] t = "Z" -> "z"
      [] t = "I" -> "i"
      [] t = "Electronics" -> "electronics"
      [] t = "Phones"      -> "phones"
      [] t = "Smartphones" -> "smartphones"
      [] t = "Audio"       -> "audio"
      [] t = "EUR" -> "eur"
      [] t = "E1" -> "e1"
      [] t = "E2" -> "e2"
      [] t = "E3" -> "e3"
      [] t = "E9" -> "e9"
      [] t = "S0" -> "s0"
      [] t = "S1" -> "s1"
      [] t = "S3" -> "s3"
      [] t = "S9" -> "s9"
      [] t = "X1" -> "x1"
      [] t = "X3" -> "x3"
      [] OTHER -> t

\* strings.ToUpper on one token of a value
UpperTok(t) ==
    CASE t = "a" -> "A"
      [] t = "b" -> "B"
      [] t = "c" -> "C"
      [] t = "z" -> "Z"
      [] t = "i" -> "I"
      [] t = "eur" -> "EUR"
      [] t = "A" -> "A"
      [] t = "B" -> "B"
      [] t = "C" -> "C"
      [] t = "Z" -> "Z"
      [] t = "Electronics" -> "ELECTRONICS"
      [] t = "Phones"      -> "PHONES"
      [] t = "Smartphones" -> "SMARTPHONES"
      [] t = "Audio"       -> "AUDIO"
      [] t = "e1" -> "E1"
      [] t = "e2" -> "E2"
      [] t = "e3" -> "E3"
      [] t = "e9" -> "E9"
      [] t = "s0" -> "S0"
      [] t = "s1" -> "S1"
      [] t = "s3" -> "S3"
      [] t = "s9" -> "S9"
      [] t = "x1" -> "X1"
      [] t = "x3" -> "X3"
      [] OTHER -> t

ToLower(s) == [i \in 1..Len(s) |-> LowerTok(s[i])]

ToUpper(s) == [i \in 1..Len(s) |-> UpperTok(s[i])]

\* the tokens that [^a-z0-9]+ matches once lowered: blanks and delimiters
NonSlugTokens == {" ", "|", " > ", "/", "-"}

\* ------------------------------------------------------------------ feed data

\* the category path of the specification's example
PathPhones == <<"Electronics", "|", "Phones", "|", "Smartphones">>

ItemA == [title |-> <<"A">>, price |-> <<"1", "0">>, ean |-> <<"e1">>, sku |-> <<"s1">>,
          ID |-> <<"x1">>, category |-> PathPhones]

\* ItemA after an upstream price change
ItemA2 == [title |-> <<"A">>, price |-> <<"1", "2">>, ean |-> <<"e1">>, sku |-> <<"s1">>,
           ID |-> <<"x1">>, category |-> PathPhones]

\* an item that carries no EAN, SKU or id (Heureka field names, decimal comma)
ItemB == [PRODUCTNAME |-> <<"B">>, PRICE_VAT |-> <<"5", ",", "5", "0", " ", "EUR">>]

\* no title: mapItem rejects it
ItemNoTitle == [price |-> <<"3">>, ean |-> <<"e2">>]

\* price 0: the callback's validation rejects it
ItemFree == [title |-> <<"C">>, price |-> <<"0">>, ean |-> <<"e3">>, sku |-> <<"s3">>,
             ID |-> <<"x3">>]

\* A downloaded document: well-formed with its items, or malformed.
DocA == [ok |-> TRUE, items |-> <<ItemA, ItemB>>]

DocA2 == [ok |-> TRUE, items |-> <<ItemA2, ItemB>>]

\* a document of one item, in a category without a parent
DocOne == [ok |-> TRUE,
           items |-> << [title |-> <<"A">>, price |-> <<"1", "0">>, ean |-> <<"e1">>,
                         sku |-> <<"s1">>, ID |-> <<"x1">>, category |-> <<"Electronics">>] >>]

DocRejects == [ok |-> TRUE, items |-> <<ItemNoTitle, ItemFree>>]

DocMalformed == [ok |-> FALSE, items |-> <<>>]

Docs == {DocA, DocA2, DocRejects, DocMalformed}

NoDoc == [ok |-> FALSE, items |-> <<>>]

\* the progress figures are recomputed when this many items have been processed
ProgressEvery == 50

\* a feed of as many items as one progress interval: ItemA, its repetitions, and
\* the item last at the end
LongDoc(last) ==
    [ok |-> TRUE,
     items |-> [i \in 1..ProgressEvery |-> IF i < ProgressEvery THEN ItemA ELSE last]]

LongDocs == {LongDoc(last) : last \in {ItemA, ItemA2, ItemB, ItemNoTitle, ItemFree}}

\* ------------------------------------------------------------------ feed configuration

FeedTypes == {"xml", "csv", "json"}

ImportModes == {"create_update", "create_only", "update_only"}

MatchBys == {"ean", "sku", "title", "external_id"}

\* field_mappings of a feed: none (auto-mapping), or an explicit list
NoMappings == <<>>

ExplicitMappings ==
    << [source_field |-> "title", target_field |-> "title", transform_type |-> "trim",
        transform_value |-> <<>>, default_value |-> <<>>],
       [source_field |-> "price", target_field |-> "price", transform_type |-> "",
        transform_value |-> <<>>, default_value |-> <<>>],
       [source_field |-> "EAN", target_field |-> "ean", transform_type |-> "lowercase",
        transform_value |-> <<>>, default_value |-> <<>>],
       [source_field |-> "sku", target_field |-> "sku", transform_type |-> "default",
        transform_value |-> <<"s0">>, default_value |-> <<>>],
       [source_field |-> "ID", target_field |-> "external_id", transform_type |-> "uppercase",
        transform_value |-> <<>>, default_value |-> <<>>],
       [source_field |-> "category", target_field |-> "category", transform_type |-> "",
        transform_value |-> <<>>, default_value |-> <<>>] >>

\* explicit mappings whose title goes through a regex transform with the given
\* payload ("pattern|||replacement")
RegexMappings(payload) ==
    << [source_field |-> "title", target_field |-> "title", transform_type |-> "regex",
        transform_value |-> payload, default_value |-> <<>>],
       [source_field |-> "price", target_field |-> "price", transform_type |-> "",
        transform_value |-> <<>>, default_value |-> <<>>],
       [source_field |-> "ean", target_field |-> "ean", transform_type |-> "",
        transform_value |-> <<>>, default_value |-> <<>>] >>

\* regex payloads: a pattern that compiles, one that does not, and a payload
\* without the separator
RegexPayloads == {<<"A", "|||", "C">>, <<"(", "|||", "C">>, <<"A">>}

\* the mapping configurations: every transform type, every kind of payload
MappingConfigs == {NoMappings, ExplicitMappings} \cup {RegexMappings(p) : p \in RegexPayloads}

\* ------------------------------------------------------------------ mapping

RECURSIVE getFieldValue(_, _)
\* the value under the first key present, as written or lower-cased; else empty
getFieldValue(raw, keys) ==
    IF keys = <<>> THEN <<>>
    ELSE IF Head(keys) \in DOMAIN raw THEN raw[Head(keys)]
    ELSE IF LowerKey(Head(keys)) \in DOMAIN raw THEN raw[LowerKey(Head(keys))]
    ELSE getFieldValue(raw, Tail(keys))

RECURSIVE ReplaceTok(_, _, _)
\* every occurrence of the token from replaced by the tokens of to
ReplaceTok(s, from, to) ==
    IF s = <<>> THEN <<>>
    ELSE (IF Head(s) = from THEN to ELSE <<Head(s)>>) \o ReplaceTok(Tail(s), from, to)

\* regexp.Compile succeeds: the model's patterns are one literal token, or
\* the unbalanced "(" that does not compile
PatternCompiles(pattern) == Len(pattern) = 1 /\ pattern[1] # "("

\* applyTransform faults when the regex payload has two parts and the pattern
\* does not compile: the nil *Regexp is dereferenced
applyTransformPanics(transformType, transformValue) ==
    /\ transformType = "regex"
    /\ Len(Split(transformValue, "|||")) = 2
    /\ ~PatternCompiles(Split(transformValue, "|||")[1])

applyTransform(value, transformType, transformValue) ==
    CASE transformType = "trim"      -> TrimSpace(value)
      [] transformType = "lowercase" -> ToLower(value)
      [] transformType = "uppercase" -> ToUpper(value)
      [] transformType = "regex"     ->
            LET parts == Split(transformValue, "|||")
            IN  IF Len(parts) = 2 THEN ReplaceTok(value, parts[1][1], parts[2]) ELSE value
      [] transformType = "default"   -> IF value = <<>> THEN transformValue ELSE value
      [] OTHER -> value

\* the zero FeedItem (the fields the import reads; brand, stock, gallery and
\* the other pass-through columns are left out)
EmptyItem == [Title |-> <<>>, Description |-> <<>>, Price |-> 0, EAN |-> <<>>, SKU |-> <<>>,
              ExternalID |-> <<>>, ImageURL |-> <<>>, CategoryPath |-> <<>>]

\* one explicit mapping applied to the item under construction
applyMapping(item, raw, m) ==
    LET src   == getFieldValue(raw, <<m.source_field>>)
        dflt  == IF src = <<>> /\ m.default_value # <<>> THEN m.default_value ELSE src
        value == applyTransform(dflt, m.transform_type, m.transform_value)
    IN  CASE m.target_field = "title"       -> [item EXCEPT !.Title = value]
          [] m.target_field = "description" -> [item EXCEPT !.Description = value]
          [] m.target_field = "price"       -> [item EXCEPT !.Price = parsePrice(value)]
          [] m.target_field = "ean"         -> [item EXCEPT !.EAN = value]
          [] m.target_field = "sku"         -> [item EXCEPT !.SKU = value]
          [] m.target_field = "external_id" -> [item EXCEPT !.ExternalID = value]
          [] m.target_field = "image_url"   -> [item EXCEPT !.ImageURL = value]
          [] m.target_field = "category"    -> [item EXCEPT !.CategoryPath = value]
          [] OTHER -> item

RECURSIVE applyMappings(_, _, _)
applyMappings(item, raw, mappings) ==
    IF mappings = <<>> THEN item
    ELSE applyMappings(applyMapping(item, raw, Head(mappings)), raw, Tail(mappings))

\* the heuristic mapping used when the feed has no mappings
autoMap(raw) ==
    [Title        |-> getFieldValue(raw, <<"PRODUCTNAME", "title", "name", "nazov">>),
     Description  |-> getFieldValue(raw, <<"DESCRIPTION", "description", "popis">>),
     Price        |-> parsePrice(getFieldValue(raw, <<"PRICE_VAT", "price", "cena">>)),
     EAN          |-> getFieldValue(raw, <<"EAN", "ean", "ean13", "gtin">>),
     SKU          |-> getFieldValue(raw, <<"SKU", "sku", "ITEMGROUP_ID", "kod">>),
     ExternalID   |-> <<>>,
     ImageURL     |-> getFieldValue(raw, <<"IMGURL", "image", "image_url", "img_url">>),
     CategoryPath |-> getFieldValue(raw, <<"CATEGORYTEXT", "category", "kategoria">>)]

\* mapItem faults (see applyTransformPanics)
mapItemPanics(raw, mappings) ==
    \E i \in 1..Len(mappings) :
        applyTransformPanics(mappings[i].transform_type, mappings[i].transform_value)

\* mapItem: [nil |-> TRUE] when the mapped title is empty
mapItem(raw, mappings) ==
    LET item == IF Len(mappings) = 0 THEN autoMap(raw)
                ELSE applyMappings(EmptyItem, raw, mappings)
    IN  [nil |-> item.Title = <<>>, item |-> item]

\* ------------------------------------------------------------------ change detection

\* md5 as an injective function of the data
md5(data) == <<"md5", data>>

calculateChecksum(item) ==
    md5(item.Title \o <<"|">> \o item.Description \o <<"|">> \o item.EAN \o <<"|">>
        \o Format2f(item.Price) \o <<"|">> \o item.ImageURL \o <<"|">> \o item.CategoryPath)

NoId == <<>>

NoChecksum == <<>>

\* the rows the lookup of findExistingProduct selects (LIMIT 1 takes any of them)
matchingProducts(prods, matchBy, item) ==
    CASE matchBy = "ean"         -> IF item.EAN # <<>> THEN {p \in prods : p.ean = item.EAN} ELSE {}
      [] matchBy = "sku"         -> IF item.SKU # <<>> THEN {p \in prods : p.sku = item.SKU} ELSE {}
      [] matchBy = "external_id" -> IF item.ExternalID # <<>>
                                    THEN {p \in prods : p.external_id = item.ExternalID} ELSE {}
      [] matchBy = "title"       -> {p \in prods : p.title = item.Title}
      [] OTHER -> {}

\* findExistingProduct: the possible (id, checksum) results
findExistingProduct(prods, matchBy, item) ==
    IF matchingProducts(prods, matchBy, item) = {}
    THEN {[id |-> NoId, checksum |-> NoChecksum]}
    ELSE {[id |-> p.id, checksum |-> p.feed_checksum] : p \in matchingProducts(prods, matchBy, item)}

\* the id of the feed imported
FeedId == <<0, 0>>

\* the row createProduct inserts (the price column is DECIMAL(12,2): hundredths)
newProductRow(id, slug, item, categoryID, checksum) ==
    [id |-> id, slug |-> slug, title |-> item.Title, description |-> item.Description,
     price |-> (item.Price + 5) \div 10, ean |-> item.EAN, sku |-> item.SKU,
     external_id |-> item.ExternalID, image_url |-> item.ImageURL,
     category_id |-> categoryID, category_path |-> item.CategoryPath,
     feed_id |-> FeedId, feed_checksum |-> checksum, is_active |-> TRUE]

\* createProduct: the INSERT, with the id and the slug made from the uuids given
createProduct(prods, id, slug, item, categoryID, checksum) ==
    prods \cup {newProductRow(id, slug, item, categoryID, checksum)}

\* updateProduct: the UPDATE of the row of that id, if there is one
updateProduct(prods, id, item, categoryID, checksum) ==
    {IF p.id = id
     THEN [p EXCEPT !.title = item.Title, !.description = item.Description,
                    !.price = (item.Price + 5) \div 10, !.ean = item.EAN, !.sku = item.SKU,
                    !.external_id = item.ExternalID, !.image_url = item.ImageURL,
                    !.category_id = categoryID, !.category_path = item.CategoryPath,
                    !.feed_checksum = checksum]
     ELSE p : p \in prods}

\* ------------------------------------------------------------------ categories

RECURSIVE CollapseDashes(_)
CollapseDashes(s) ==
    IF Len(s) < 2 THEN s
    ELSE IF s[1] = "-" /\ s[2] = "-" THEN CollapseDashes(Tail(s))
    ELSE <<Head(s)>> \o CollapseDashes(Tail(s))

RECURSIVE TrimDashes(_)
TrimDashes(s) ==
    IF s # <<>> /\ Head(s) = "-" THEN TrimDashes(Tail(s))
    ELSE IF s # <<>> /\ s[Len(s)] = "-" THEN TrimDashes(SubSeq(s, 1, Len(s) - 1))
    ELSE s

\* the slug before its suffix: lower-cased, every run outside a-z0-9 one "-",
\* no "-" at either end
slugBase(text) ==
    TrimDashes(CollapseDashes(
        [i \in 1..Len(text) |-> IF text[i] \in NonSlugTokens THEN "-" ELSE LowerTok(text[i])]))

\* generateSlug: the base, then "-" and the first 8 characters of a new uuid
generateSlug(text, uuid) == [base |-> slugBase(text), suffix |-> uuid]

\* the categories the lookup of getOrCreateCategory selects
findCategory(cats, slug, parentID) == {c \in cats : c.slug = slug /\ c.parent_id = parentID}

\* the path split into its parts
splitCategoryPath(categoryPath) ==
    LET byBar   == Split(categoryPath, "|")
        byArrow == IF Len(byBar) = 0 THEN Split(categoryPath, " > ") ELSE byBar
    IN  IF Len(byArrow) = 0 THEN Split(categoryPath, "/") ELSE byArrow

\* the INSERT of getOrCreateCategory: the row is refused when its parent_id
\* names no category (the foreign key), and the error is ignored
insertCategory(cats, row) ==
    IF row.parent_id = NoId \/ \E c \in cats : c.id = row.parent_id THEN cats \cup {row} ELSE cats

\* one pass of the loop of getOrCreateCategory: st holds parentID / lastID, the
\* categories table and n, the number of uuids engine r has drawn so far
resolvePart(st, part, r) ==
    LET name == TrimSpace(part)
        slug == generateSlug(name, <<r, st.n + 1>>)
    IN  IF name = <<>> THEN st
        ELSE IF findCategory(st.cats, slug, st.lastID) # {}
        THEN [st EXCEPT !.lastID = (CHOOSE c \in findCategory(st.cats, slug, st.lastID) : TRUE).id,
                        !.n = st.n + 1]
        ELSE [lastID |-> <<r, st.n + 2>>,
              cats   |-> insertCategory(st.cats,
                                        [id |-> <<r, st.n + 2>>, name |-> name, slug |-> slug,
                                         parent_id |-> st.lastID, product_count |-> 0]),
              n      |-> st.n + 2]

RECURSIVE resolveParts(_, _, _)
\* the loop of getOrCreateCategory over the parts
resolveParts(st, parts, r) ==
    IF parts = <<>> THEN st ELSE resolveParts(resolvePart(st, Head(parts), r), Tail(parts), r)

\* getOrCreateCategory, had it not cached the leaf
cacheLeafDropped(res, cache, categoryPath) ==
    [id |-> res.lastID, cats |-> res.cats, cache |-> cache, n |-> res.n]

\* getOrCreateCategory after a cache miss, given the result of its loop
cacheLeaf(res, cache, categoryPath) ==
    [id    |-> res.lastID,
     cats  |-> res.cats,
     cache |-> IF res.lastID # NoId
               THEN cache \cup {[path |-> categoryPath, id |-> res.lastID]}
               ELSE cache,
     n     |-> res.n]

\* getOrCreateCategory: the leaf id (NoId for none), the categories table, the
\* cache and the uuid count afterwards
getOrCreateCategory(cats, cache, categoryPath, r, n) ==
    IF categoryPath = <<>> THEN [id |-> NoId, cats |-> cats, cache |-> cache, n |-> n]
    ELSE IF \E e \in cache : e.path = categoryPath
    THEN [id |-> (CHOOSE e \in cache : e.path = categoryPath).id,
          cats |-> cats, cache |-> cache, n |-> n]
    ELSE cacheLeaf(resolveParts([lastID |-> NoId, cats |-> cats, n |-> n],
                                splitCategoryPath(categoryPath), r),
                   cache, categoryPath)

\* ------------------------------------------------------------------ traversal

\* What a full traversal (ParseXMLFull / ParseCSVFull / ParseJSONFull) of a
\* document does under a feed's settings:
\*   "items"  the callback is invoked for each item in order
\*   "error"  it returns an error before any callback (csv.ReadAll, json.Unmarshal
\*            or the missing products array)
\*   "panic"  the empty CSV delimiter is indexed
\*   "spin"   the XML decoder repeats its error and the loop continues for ever
\*   "none"   the feed type is none of the three: no traversal is made
traversal(f, doc) ==
    CASE f.feed_type = "xml"  -> IF doc.ok THEN "items" ELSE "spin"
      [] f.feed_type = "csv"  -> IF f.csv_delimiter = <<>> THEN "panic"
                                 ELSE IF doc.ok THEN "items" ELSE "error"
      [] f.feed_type = "json" -> IF doc.ok THEN "items" ELSE "error"
      [] OTHER -> "none"

\* the error a failed traversal returns
traversalError(f) ==
    IF f.feed_type = "csv" THEN "record on line 2: wrong number of fields"
    ELSE "no products array found"

\* strings.Contains(msg, "cancelled") on the messages a traversal can return
containsCancelled(msg) == msg = "import cancelled"

\* ------------------------------------------------------------------ the XML traversal

\* A document is the sequence of tokens xml.Decoder.Token returns for it before
\* the end of the input: start elements, end elements and character data.
xmlStart(name) == [k |-> "start", v |-> name]

xmlEnd(name) == [k |-> "end", v |-> name]

xmlText(value) == [k |-> "text", v |-> value]

\* one item element with a name, a blank and an EAN
xmlItem(tag, name, ean) ==
    << xmlStart(tag), xmlStart("NAME"), xmlText(<<name>>), xmlEnd("NAME"), xmlText(<<" ">>),
       xmlStart("EAN"), xmlText(<<" ", ean>>), xmlEnd("EAN"), xmlEnd(tag) >>

\* a complete document of two items under a root element
xmlDocument(tag) ==
    <<xmlStart("SHOP")>> \o xmlItem(tag, "A", "e1") \o xmlItem(tag, "B", "e2") \o <<xmlEnd("SHOP")>>

\* the documents: complete ones, and each cut short after any of its tokens
XMLDocs ==
    UNION {{SubSeq(xmlDocument(tag), 1, k) : k \in 0..Len(xmlDocument(tag))} :
              tag \in {"SHOPITEM", "shopitem"}}

\* the item element FeedParser looks for (NewFeedParser's default)
XMLItemPath == "SHOPITEM"

\* strings.EqualFold on element names
EqualFold(a, b) ==
    LET fold(n) == IF n = "SHOPITEM" THEN "shopitem" ELSE n
    IN  fold(a) = fold(b)

\* the elements open after the whole of data: the decoder's stack at the end
openAtEnd(data) ==
    Cardinality({i \in 1..Len(data) : data[i].k = "start"})
    - Cardinality({i \in 1..Len(data) : data[i].k = "end"})

\* Decoder.Token at the end of the input: io.EOF when no element is open, else
\* a syntax error (unexpected EOF), on this call and on every later one
tokenAtEnd(data) == IF openAtEnd(data) = 0 THEN "EOF" ELSE "XML syntax error: unexpected EOF"

\* a map[string]interface{} with no key, and m with m[key] set
EmptyMap == [x \in {} |-> <<>>]

mapSet(m, key, value) == [x \in DOMAIN m \cup {key} |-> IF x = key THEN value ELSE m[x]]

\* the error a callback returns: processCallback's, on a stop request
callbackError == "import cancelled"

\* a traversal that called its callback and went on whatever it returned
invokeCallbackUnchecked(c, item, next) == [next EXCEPT !.delivered = Append(c.delivered, item)]

\* the traversal c calls its callback on item ("if err := callback(item); err
\* != nil { return err }"): the item is noted in delivered; the callback's
\* failAt-th call returns the error, and the traversal returns it; after any
\* other call the traversal goes on as next
invokeCallback(c, item, next) ==
    IF Len(c.delivered) + 1 = c.failAt
    THEN [c EXCEPT !.delivered = Append(@, item), !.pc = "returned", !.err = callbackError]
    ELSE [next EXCEPT !.delivered = Append(c.delivered, item)]

\* ParseXMLFull as it starts on data, with a callback that returns nil
parseXMLStart(data) ==
    [fn |-> "ParseXMLFull", data |-> data, pos |-> 1, pc |-> "loop", err |-> "",
     inItem |-> FALSE, itemDepth |-> 0, currentPath |-> <<>>, currentItem |-> EmptyMap,
     delivered |-> <<>>, failAt |-> 0, skipped |-> 0]

\* the switch of ParseXMLFull's loop on the token t
xmlToken(c, t) ==
    CASE t.k = "start" ->
            IF EqualFold(t.v, XMLItemPath)
            THEN [c EXCEPT !.currentPath = Append(@, t.v), !.inItem = TRUE,
                           !.itemDepth = Len(c.currentPath) + 1, !.currentItem = EmptyMap]
            ELSE [c EXCEPT !.currentPath = Append(@, t.v)]
      [] t.k = "end" ->
            LET popped == IF Len(c.currentPath) > 0
                          THEN SubSeq(c.currentPath, 1, Len(c.currentPath) - 1)
                          ELSE c.currentPath
            IN  IF c.inItem /\ EqualFold(t.v, XMLItemPath) /\ Len(c.currentPath) = c.itemDepth
                THEN invokeCallback(c, c.currentItem,
                                    [c EXCEPT !.inItem = FALSE, !.currentItem = EmptyMap,
                                              !.currentPath = popped])
                ELSE [c EXCEPT !.currentPath = popped]
      [] OTHER ->
            IF c.inItem /\ Len(c.currentPath) > c.itemDepth /\ TrimSpace(t.v) # <<>>
            THEN [c EXCEPT !.currentItem =
                               mapSet(@, c.currentPath[Len(c.currentPath)], TrimSpace(t.v))]
            ELSE c

\* one pass of ParseXMLFull's loop: io.EOF breaks and nil is returned, any other
\* error of the decoder is skipped with continue (skipped is the parity of the
\* number of errors skipped), a token is handled
parseXMLStep(c) ==
    IF c.pos > Len(c.data)
    THEN IF tokenAtEnd(c.data) = "EOF" THEN [c EXCEPT !.pc = "returned"]
         ELSE [c EXCEPT !.skipped = 1 - @]
    ELSE [xmlToken(c, c.data[c.pos]) EXCEPT !.pos = c.pos + 1]

\* ------------------------------------------------------------------ the CSV and JSON traversals

\* the item ParseCSVFull builds of a record: the value of each column that has
\* a header, a later column of the same header replacing an earlier one
csvItem(headers, record) ==
    LET n == IF Len(record) < Len(headers) THEN Len(record) ELSE Len(headers)
    IN  [h \in {headers[j] : j \in 1..n} |->
            record[CHOOSE j \in 1..n : headers[j] = h /\ \A i \in 1..n : headers[i] = h => i <= j]]

\* ParseCSVFull as it starts: read is what csv.Reader.ReadAll answers for the
\* data, an error or the records
parseCSVStart(delimiter, read, failAt) ==
    [fn |-> "ParseCSVFull", delimiter |-> delimiter, read |-> read, pos |-> 2, pc |-> "read",
     err |-> "", delivered |-> <<>>, failAt |-> failAt]

\* ParseCSVFull: the reader's set-up and ReadAll, then one record per pass
parseCSVStep(c) ==
    IF c.pc = "read"
    THEN IF c.delimiter = <<>> THEN [c EXCEPT !.pc = "panicked"]
         ELSE IF c.read.err # "" THEN [c EXCEPT !.pc = "returned", !.err = c.read.err]
         ELSE IF Len(c.read.records) = 0 THEN [c EXCEPT !.pc = "returned"]
         ELSE [c EXCEPT !.pc = "loop"]
    ELSE IF c.pos > Len(c.read.records) THEN [c EXCEPT !.pc = "returned"]
    ELSE invokeCallback(c, csvItem(c.read.records[1], c.read.records[c.pos]),
                        [c EXCEPT !.pos = c.pos + 1])

\* what ReadAll answers: an error, no record, the header alone, two records,
\* and records shorter and longer than the header
CSVReads ==
    { [err |-> "record on line 2: wrong number of fields", records |-> <<>>],
      [err |-> "", records |-> <<>>],
      [err |-> "", records |-> << <<"title", "price">> >>],
      [err |-> "", records |-> << <<"title", "price">>, <<"A", "10">>, <<"B", "5">> >>],
      [err |-> "", records |-> << <<"title", "price", "title">>, <<"A">>, <<"B", "5", "C", "7">>,
                                  <<"D", "1", "E">> >>] }

\* a decoded JSON value: invalid input, an array of elements, an object whose
\* members are arrays or not; an element is an object (a map) or is not
jsonInvalid == [kind |-> "invalid", elems |-> <<>>, members |-> EmptyMap]

jsonArray(elems) == [kind |-> "array", elems |-> elems, members |-> EmptyMap]

jsonObject(members) == [kind |-> "object", elems |-> <<>>, members |-> members]

jsonMap(m) == [isMap |-> TRUE, m |-> m]

jsonScalar == [isMap |-> FALSE, m |-> EmptyMap]

\* the keys findJSONProductsArray looks under, in its order
JSONKeys == <<"products", "items", "offers", "data", "results", "SHOPITEM">>

\* no array found
NilArray == [nil |-> TRUE, elems |-> <<>>]

\* obj[key].([]interface{}) of findJSONProductsArray
memberArray(members, key) == key \in DOMAIN members /\ members[key].kind = "array"

RECURSIVE findInObject(_, _)
\* the loop of findJSONProductsArray over the keys from the k-th on
findInObject(members, k) ==
    IF k > Len(JSONKeys) THEN NilArray
    ELSE IF memberArray(members, JSONKeys[k])
    THEN [nil |-> FALSE, elems |-> members[JSONKeys[k]].elems]
    ELSE IF memberArray(members, LowerKey(JSONKeys[k]))
    THEN [nil |-> FALSE, elems |-> members[LowerKey(JSONKeys[k])].elems]
    ELSE findInObject(members, k + 1)

findJSONProductsArray(raw) ==
    IF raw.kind = "array" THEN [nil |-> FALSE, elems |-> raw.elems]
    ELSE IF raw.kind = "object" THEN findInObject(raw.members, 1)
    ELSE NilArray

\* ParseJSONFull as it starts on the decoded value raw
parseJSONStart(raw, failAt) ==
    [fn |-> "ParseJSONFull", raw |-> raw, items |-> <<>>, pos |-> 1, pc |-> "read", err |-> "",
     delivered |-> <<>>, failAt |-> failAt]

\* ParseJSONFull: Unmarshal and the search of the array, then one element per
\* pass, the callback called on the elements that are objects
parseJSONStep(c) ==
    IF c.pc = "read"
    THEN IF c.raw.kind = "invalid"
         THEN [c EXCEPT !.pc = "returned", !.err = "invalid character"]
         ELSE IF findJSONProductsArray(c.raw).nil
         THEN [c EXCEPT !.pc = "returned", !.err = "no products array found"]
         ELSE [c EXCEPT !.pc = "loop", !.items = findJSONProductsArray(c.raw).elems]
    ELSE IF c.pos > Len(c.items) THEN [c EXCEPT !.pc = "returned"]
    ELSE IF c.items[c.pos].isMap
    THEN invokeCallback(c, c.items[c.pos].m, [c EXCEPT !.pos = c.pos + 1])
    ELSE [c EXCEPT !.pos = c.pos + 1]

\* the decoded documents: invalid, a bare array with an element that is no
\* object, the array under a key, under a lower-cased key, under an unknown
\* key, and behind a member that is no array
JSONRaws ==
    { jsonInvalid,
      jsonArray(<<jsonMap(ItemA), jsonScalar, jsonMap(ItemB), jsonMap(ItemFree)>>),
      jsonArray(<<>>),
      jsonObject([x \in {"products"} |-> jsonArray(<<jsonMap(ItemA), jsonMap(ItemB)>>)]),
      jsonObject([x \in {"shopitem"} |-> jsonArray(<<jsonMap(ItemA), jsonMap(ItemB)>>)]),
      jsonObject([x \in {"rows"} |-> jsonArray(<<jsonMap(ItemA)>>)]),
      jsonObject([x \in {"items", "data"} |->
                     IF x = "items" THEN jsonObject(EmptyMap)
                     ELSE jsonArray(<<jsonMap(ItemB), jsonMap(ItemA)>>)]) }

\* the callback's calls that return an error: none (0), or the k-th
FailAts == 0..3

\* ------------------------------------------------------------------ automatic mapping

\* the patterns of AutoDetectMappings, by target field: each pattern "^x$" is
\* written as its x
patterns ==
    [ ean            |-> {"ean", "ean13", "gtin", "barcode", "ITEM_ID"},
      sku            |-> {"sku", "productno", "kod", "item_id", "ITEMGROUP_ID"},
      external_id    |-> {"id", "external_id", "ext_id"},
      title          |-> {"productname", "product", "title", "name", "nazov", "PRODUCTNAME"},
      description    |-> {"description", "popis", "desc", "DESCRIPTION"},
      price          |-> {"price_vat", "price", "cena", "PRICE_VAT"},
      image_url      |-> {"imgurl", "img_url", "image", "foto", "IMGURL"},
      gallery_images |-> {"imgurl_alternative", "gallery", "images"},
      affiliate_url  |-> {"url", "link", "product_url", "URL"},
      category       |-> {"categorytext", "category", "kategoria", "CATEGORYTEXT"},
      brand          |-> {"manufacturer", "brand", "vyrobca", "MANUFACTURER"},
      stock_quantity |-> {"stock", "quantity", "sklad", "STOCK_QUANTITY"},
      delivery_time  |-> {"delivery", "delivery_date", "dodanie", "DELIVERY_DATE"},
      attributes     |-> {"param", "params", "PARAM"} ]

\* regexp.MatchString("(?i)^x$", fieldLower): equality without regard to case
matchString(pattern, fieldLower) == LowerKey(pattern) = LowerKey(fieldLower)

\* the targets one of whose patterns matches the field
matchingTargets(field) ==
    {target \in DOMAIN patterns : \E p \in patterns[target] : matchString(p, LowerKey(field))}

RECURSIVE autoDetectMappings(_)
\* AutoDetectMappings: the lists it can return. The targets are ranged over in
\* the order of a Go map, which is any order, anew for each field; the first
\* target that matches is taken, so any matching target can be the one.
autoDetectMappings(fields) ==
    IF fields = <<>> THEN {<<>>}
    ELSE IF matchingTargets(Head(fields)) = {} THEN autoDetectMappings(Tail(fields))
    ELSE {<<[SourceField |-> Head(fields), TargetField |-> target]>> \o rest :
             target \in matchingTargets(Head(fields)), rest \in autoDetectMappings(Tail(fields))}

\* the field names of a request
FieldNames == {"EAN", "ITEM_ID", "item_id", "Price", "PRODUCTNAME", "weight"}

\* ------------------------------------------------------------------ the CSV delimiter

\* strings.Count for a one-character separator
Count(line, d) == Cardinality({i \in 1..Len(line) : line[i] = d})

\* the candidates of detectCSVDelimiter, in its order
Delimiters == <<";", ",", "\t", "|">>

\* the lines lines[1:5] of detectCSVDelimiter that agree with the first line on
\* the count of d
delimiterScore(lines, d) ==
    Cardinality({i \in 2..5 : Count(lines[i], d) = Count(lines[1], d)})

RECURSIVE bestDelimiter(_, _, _, _)
\* the loop of detectCSVDelimiter over the candidates from the k-th on
bestDelimiter(lines, k, maxScore, best) ==
    IF k > Len(Delimiters) THEN best
    ELSE IF Count(lines[1], Delimiters[k]) > 0 /\ delimiterScore(lines, Delimiters[k]) > maxScore
    THEN bestDelimiter(lines, k + 1, delimiterScore(lines, Delimiters[k]), Delimiters[k])
    ELSE bestDelimiter(lines, k + 1, maxScore, best)

\* detectCSVDelimiter: strings.Split returns a slice whose capacity is its
\* length, so lines[1:5] is out of range for fewer than five lines and the
\* function panics as soon as a candidate occurs in the first line
detectCSVDelimiter(data) ==
    LET lines == Split(data, "\n")
    IN  IF Len(lines) < 2 THEN [panics |-> FALSE, best |-> ";"]
        ELSE IF Len(lines) < 5 /\ \E k \in 1..Len(Delimiters) : Count(lines[1], Delimiters[k]) > 0
        THEN [panics |-> TRUE, best |-> ""]
        ELSE [panics |-> FALSE, best |-> bestDelimiter(lines, 1, 0, ";")]

\* data lines with two semicolons each, with and without commas in their fields
CSVDataLines ==
    { <<"x", ";", "y", ";", "z">>,
      <<"x", ",", "1", ";", "y", ";", "z">>,
      <<"x", ";", "y", ",", "2", ";", "z", ",", "3">>,
      <<",", ";", ",", ";", ",">> }

\* the documents: the header a;b;c, three data lines, with or without a final
\* newline
CSVDocs ==
    { <<"a", ";", "b", ";", "c", "\n">> \o l1 \o <<"\n">> \o l2 \o <<"\n">> \o l3 \o tail :
        l1 \in CSVDataLines, l2 \in CSVDataLines, l3 \in CSVDataLines, tail \in {<<>>, <<"\n">>} }

\* ------------------------------------------------------------------ state

VARIABLES
    feed,           \* the feeds row of the feed imported: its settings
    feedRow,        \* that row's existence and its status columns
    otherFeeds,     \* the number of other rows of table feeds
    served,         \* environment: the documents the feed's URL answers with
    sequential,     \* environment: StartImport requests are served one at a time
    hpc,            \* per StartImport request: where its handler stands
    importEngines,  \* Handler.importEngines[feedID]: the engine stored, or NoEngine
    eng,            \* per StartImport request: the engine it created and its run
    products,       \* table products
    categories,     \* table categories
    importHistory,  \* table import_history, by the engine that owns the row
    stops,          \* StopImport requests served
    stopResult,     \* the outcome of the last StopImport
    stopCall,       \* the StopImport handler between Stop's unlock and its answer
    call,           \* a parser or engine function called on its own: input and result
    polls,          \* GetImportProgress requests served
    pollCall,       \* the GetImportProgress handler while it encodes the progress
    observed,       \* the last response of GetImportProgress
    admins,         \* requests to the product, category and feed handlers served
    crashed         \* the process has died of a panic in a run's goroutine

vars == <<feed, feedRow, otherFeeds, served, sequential, hpc, importEngines, eng, products,
          categories, importHistory, stops, stopResult, stopCall, call, polls, pollCall,
          observed, admins, crashed>>

Reqs == 1..MaxStarts

NoEngine == 0

LogCap == 100

\* no StopImport handler is between Stop's unlock and its answer; read tells
\* whether Stop's log has read the log lines, logs holds what it read
NoStopCall == [inflight |-> FALSE, engine |-> NoEngine, processed |-> 0, read |-> FALSE,
               logs |-> <<>>]

\* no function is called on its own
NoCall == [fn |-> "none"]

\* *models.ImportProgress: alloc is FALSE while e.progress is nil
NilProgress ==
    [alloc |-> FALSE, Status |-> "", Percent |-> 0, Total |-> 0, Processed |-> 0,
     Created |-> 0, Updated |-> 0, Skipped |-> 0, Errors |-> 0, Message |-> "", Logs |-> <<>>]

\* the fields of ImportProgress in the order of the struct, which is the order
\* in which the JSON encoder reads them
ProgressFields ==
    <<"Status", "Percent", "Total", "Processed", "Created", "Updated", "Skipped", "Errors",
      "Message", "Logs">>

\* no GetImportProgress handler is encoding; next is the field it reads next,
\* progress what it has read
NoPollCall == [inflight |-> FALSE, engine |-> NoEngine, next |-> 1, reads |-> 0,
               progress |-> NilProgress]

\* the ImportHistory value Run builds, and a row of import_history
NoHistory ==
    [exists |-> FALSE, Status |-> "", TotalItems |-> 0, Processed |-> 0, Created |-> 0,
     Updated |-> 0, Skipped |-> 0, Errors |-> 0, ErrorMessage |-> ""]

\* no feeds row has been read
NoFeed == [feed_type |-> "", csv_delimiter |-> <<>>, import_mode |-> "", match_by |-> "",
           field_mappings |-> <<>>]

\* no product was looked up
NotFound == [id |-> NoId, checksum |-> NoChecksum]

\* NewImportEngine, before StartImport has created it (pc = "none").  feed is
\* the row StartImport has read; found, parts, lastID, categoryID and failed
\* are the locals of processItem and getOrCreateCategory between their database
\* calls; writes holds the assignments to fields of e.progress that the run's
\* goroutine has still to make before its next call, in the order of the code;
\* staleLogs holds the log lines that a call of log by the run may have read
\* before another goroutine stored its own
NewImportEngine ==
    [pc |-> "none", isRunning |-> FALSE, shouldStop |-> FALSE, progress |-> NilProgress,
     history |-> NoHistory, feed |-> NoFeed, feedData |-> NoDoc, idx |-> 0, err |-> "",
     categoryCache |-> {}, uuids |-> 0, found |-> NotFound, parts |-> <<>>, lastID |-> NoId,
     categoryID |-> NoId, failed |-> FALSE, writes |-> <<>>, staleLogs |-> {}]

\* ------------------------------------------------------------------ engine helpers

\* ImportEngine.log: append, keep the last LogCap entries
log(progress, level, message) ==
    LET logs == Append(progress.Logs, <<level, message>>)
    IN  [progress EXCEPT !.Logs = IF Len(logs) > LogCap
                                  THEN SubSeq(logs, Len(logs) - LogCap + 1, Len(logs))
                                  ELSE logs]

\* log is not synchronised: the lines a call of log by the run reads are the
\* ones stored now, or the ones stored before a store that Stop's log has made
\* since the run's last assignment (Stop's line is then lost)
logBases(e) == {e.progress.Logs} \cup e.staleLogs

\* log called by the run on the lines base
runLog(progress, base, level, message) == log([progress EXCEPT !.Logs = base], level, message)

\* the assignments that take the progress p to the progress q, the fields
\* written in the order of the code; for Logs the assignment is a call of log
\* with the line appended
stores(p, q, order) ==
    LET written == SelectSeq(order, LAMBDA f : q[f] # p[f])
    IN  [i \in 1..Len(written) |->
            [f |-> written[i],
             v |-> IF written[i] = "Logs" THEN q.Logs[Len(q.Logs)] ELSE q[written[i]]]]

\* the engine e after the first of its pending assignments, a call of log
\* having read the lines base
store(e, base) ==
    LET w == Head(e.writes)
    IN  [e EXCEPT !.writes = Tail(@),
                  !.progress = IF w.f = "Logs"
                               THEN runLog(e.progress, base, w.v[1], w.v[2])
                               ELSE [f \in DOMAIN e.progress |->
                                        IF f = w.f THEN w.v ELSE e.progress[f]]]

\* the progress of e once its pending assignments are made (the log lines as
\* they are stored now)
whenStored(e) ==
    [f \in DOMAIN e.progress |->
        IF f # "Logs" /\ \E i \in DOMAIN e.writes : e.writes[i].f = f
        THEN e.writes[CHOOSE i \in DOMAIN e.writes : e.writes[i].f = f].v
        ELSE e.progress[f]]

\* the run's goroutine has made every assignment of the statements it has
\* executed
settled(e) == e.writes = <<>>

\* ImportEngine.updateProgress (elapsed, ETA and speed are clock readings, left out)
updateProgress(progress, message) ==
    [progress EXCEPT !.Message = message,
                     !.Percent = IF progress.Total > 0
                                 THEN (progress.Processed * 100) \div progress.Total
                                 ELSE progress.Percent]

\* ImportEngine.saveHistory: the upsert of the run's row; the row refers to the
\* feed, so that it is refused (and the error ignored) once the feed is deleted
saveHistory(rows, r, history, feedExists) ==
    IF feedExists THEN [rows EXCEPT ![r] = history] ELSE rows

\* ImportEngine.updateFeedStatus: the UPDATE of the feed's row, if there is one
updateFeedStatus(row, prods, status, errorMsg) ==
    IF row.exists
    THEN [row EXCEPT !.status = status, !.last_error = errorMsg,
                     !.total_products = Cardinality({p \in prods : p.feed_id = FeedId})]
    ELSE row

\* ImportEngine.updateCategoryCounts
updateCategoryCounts(cats, prods) ==
    {[c EXCEPT !.product_count =
                  Cardinality({p \in prods : p.category_id = c.id /\ p.is_active})] : c \in cats}

\* completeImport before its database calls: the history value
completedHistory(e) ==
    [e.history EXCEPT !.Processed = e.progress.Processed,
                      !.Created = e.progress.Created,
                      !.Updated = e.progress.Updated,
                      !.Skipped = e.progress.Skipped,
                      !.Errors = e.progress.Errors,
                      !.Status = "completed"]

\* failImport before its database calls: the history value
failedHistory(e, errorMsg) == [e.history EXCEPT !.Status = "failed", !.ErrorMessage = errorMsg]

\* completeImport after its database calls, had it left the progress status
completeImportStatusKept(e) ==
    [e EXCEPT !.progress = log(updateProgress(e.progress, "Import completed"),
                               "info", "Import completed"),
              !.pc = "returned"]

\* completeImport after its database calls: the status, the message and the
\* percentage are set, the line is logged and Run returns
completeImport(e) ==
    [e EXCEPT !.progress = log(updateProgress([e.progress EXCEPT !.Status = "completed"],
                                              "Import completed"),
                               "info", "Import completed"),
              !.pc = "returned"]

\* a fatal error handled as a completion
failAsCompleted(e) == completeImport(e)

\* failImport after its database calls: the status and the message (the error)
\* are set, the line is logged and Run returns
failImport(e) ==
    [e EXCEPT !.progress = log(updateProgress([e.progress EXCEPT !.Status = "failed"],
                                              e.history.ErrorMessage),
                               "error", "Import failed"),
              !.pc = "returned"]

\* the category path of the item resolved from the cache or without a part to
\* look up: processItem goes on to its write with that category
categoryResolved(e, categoryPath, parts) ==
    IF \E c \in e.categoryCache : c.path = categoryPath
    THEN [e EXCEPT !.categoryID = (CHOOSE c \in e.categoryCache : c.path = categoryPath).id,
                   !.pc = "write"]
    ELSE IF parts = <<>>
    THEN [e EXCEPT !.categoryID = NoId, !.pc = "write"]
    ELSE [e EXCEPT !.parts = parts, !.lastID = NoId, !.pc = "category"]

\* the parts of a path that the loop of getOrCreateCategory does not skip
namedParts(categoryPath) ==
    SelectSeq(splitCategoryPath(categoryPath), LAMBDA part : TrimSpace(part) # <<>>)

\* processItem from "Get or create category" to the first database call
\* after it
resolveCategory(e, item) ==
    IF item.CategoryPath # <<>>
    THEN categoryResolved(e, item.CategoryPath, namedParts(item.CategoryPath))
    ELSE [e EXCEPT !.categoryID = NoId, !.pc = "write"]

\* processCallback, had it not counted the item whose upsert failed
afterProcessItemUncounted(e) ==
    [e EXCEPT !.progress = IF e.failed THEN log(e.progress, "error", "Item error")
                           ELSE e.progress]

\* processCallback after processItem has returned, with an error (failed) or
\* without: the error is counted and logged, or the progress figures are
\* recomputed at every ProgressEvery-th item
afterProcessItem(e) ==
    IF e.failed
    THEN [e EXCEPT !.progress = log([e.progress EXCEPT !.Errors = @ + 1],
                                    "error", "Item error")]
    ELSE [e EXCEPT !.progress = IF e.progress.Processed % ProgressEvery = 0
                                THEN updateProgress(e.progress, "Processing...")
                                ELSE e.progress]

\* processCallback returns nil: the traversal goes on to the next item
callbackReturns(e) ==
    [e EXCEPT !.pc = "process", !.idx = @ + 1, !.found = NotFound, !.parts = <<>>,
              !.lastID = NoId, !.categoryID = NoId, !.failed = FALSE]

\* processItem without its "Skip unchanged" test
processItemNoSkip(e, item, found) == resolveCategory([e EXCEPT !.found = found], item)

\* processItem once findExistingProduct has returned found: the unchanged item
\* is to be skipped, another item goes on to its category
processItem(e, item, found) ==
    IF found.id # NoId /\ found.checksum = calculateChecksum(item)
    THEN [e EXCEPT !.found = found, !.pc = "skip"]
    ELSE resolveCategory([e EXCEPT !.found = found], item)

\* processItem, "Skip unchanged": Skipped++ and its return
skipUnchanged(e) == [e EXCEPT !.progress.Skipped = @ + 1]

\* processCallback after mapItem has returned mapped, up to the lookup of
\* findExistingProduct, whose possible results are founds
afterMapItem(e, mapped, founds) ==
    IF mapped.nil
    THEN {callbackReturns([e EXCEPT !.progress.Skipped = @ + 1])}
    ELSE IF mapped.item.Title = <<>>
    THEN {callbackReturns([e EXCEPT !.progress.Errors = @ + 1])}
    ELSE IF mapped.item.Price = 0
    THEN {callbackReturns([e EXCEPT !.progress.Errors = @ + 1])}
    ELSE {processItem(e, mapped.item, found) : found \in founds}

\* the item run e holds, mapped under the settings the engine was made with
mappedItem(e) == mapItem(e.feedData.items[e.idx], e.feed.field_mappings)

\* the body of processCallback after Processed++, up to the first database
\* call of processItem: the engines it can lead to
callbackBody(e, prods) ==
    afterMapItem(e, mappedItem(e), findExistingProduct(prods, e.feed.match_by, mappedItem(e).item))

\* the INSERT or UPDATE of processItem returns no error: the database answers
\* (dbOk) and the row written refers to a category and, for an INSERT, to a
\* feed that exist; an UPDATE of an id that has no row writes nothing, checks
\* no reference and returns no error
writeAccepted(e, cats, prods, feedExists, dbOk) ==
    /\ dbOk
    /\ IF e.found.id # NoId
       THEN (\E p \in prods : p.id = e.found.id)
            => (e.categoryID = NoId \/ \E c \in cats : c.id = e.categoryID)
       ELSE /\ e.categoryID = NoId \/ \E c \in cats : c.id = e.categoryID
            /\ feedExists

\* table products after createProduct / updateProduct of processItem
writeProduct(e, r, prods, ok) ==
    IF ~ok THEN prods
    ELSE IF e.found.id # NoId
    THEN updateProduct(prods, e.found.id, mappedItem(e).item, e.categoryID,
                       calculateChecksum(mappedItem(e).item))
    ELSE createProduct(prods, <<r, e.uuids + 1>>,
                       generateSlug(mappedItem(e).item.Title, <<r, e.uuids + 2>>),
                       mappedItem(e).item, e.categoryID, calculateChecksum(mappedItem(e).item))

\* processItem after the call of createProduct / updateProduct, which draws the
\* uuids of the id and of the slug of a new product: failed tells its error
written(e, ok) ==
    [e EXCEPT !.failed = ~ok, !.uuids = IF e.found.id # NoId THEN @ ELSE @ + 2, !.pc = "written"]

\* processItem returns: Updated++ / Created++, or the error of the write
processItemReturns(e) ==
    IF e.failed THEN e
    ELSE IF e.found.id # NoId THEN [e EXCEPT !.progress.Updated = @ + 1]
    ELSE [e EXCEPT !.progress.Created = @ + 1]


\* ------------------------------------------------------------------ initial states

FeedSettings ==
    [feed_type : FeedTypes, csv_delimiter : {<<";">>, <<>>}, import_mode : ImportModes,
     match_by : MatchBys, field_mappings : {NoMappings, ExplicitMappings}]

InitCommon ==
    /\ feedRow = [exists |-> TRUE, status |-> "active", last_error |-> "", total_products |-> 0]
    /\ otherFeeds = 0
    /\ hpc = [r \in Reqs |-> "ready"]
    /\ importEngines = NoEngine
    /\ eng = [r \in Reqs |-> NewImportEngine]
    /\ products = {}
    /\ categories = {}
    /\ importHistory = [r \in Reqs |-> NoHistory]
    /\ stops = 0
    /\ stopResult = "none"
    /\ stopCall = NoStopCall
    /\ polls = 0
    /\ pollCall = NoPollCall
    /\ observed = [kind |-> "none", progress |-> NilProgress]
    /\ admins = 0
    /\ crashed = FALSE

\* requests of any timing, on a CSV feed with or without its delimiter
Init ==
    /\ InitCommon
    /\ call = NoCall
    /\ sequential = FALSE
    /\ served = {DocOne, DocMalformed}
    /\ feed \in {f \in FeedSettings : /\ f.feed_type = "csv"
                                      /\ f.import_mode = "create_update"
                                      /\ f.match_by = "ean"
                                      /\ f.field_mappings = NoMappings}

\* StartImport requests served one at a time, on a CSV feed with or without its
\* delimiter
InitPolls ==
    /\ InitCommon
    /\ call = NoCall
    /\ sequential = TRUE
    /\ served = {DocOne, DocMalformed}
    /\ feed \in {f \in FeedSettings : /\ f.feed_type = "csv"
                                      /\ f.import_mode = "create_update"
                                      /\ f.match_by = "ean"
                                      /\ f.field_mappings = NoMappings}

\* StartImport requests served one at a time, on a JSON feed of any import mode
\* and match key (the external id is mapped by the explicit mappings alone)
InitSeq ==
    /\ InitCommon
    /\ call = NoCall
    /\ sequential = TRUE
    /\ served = Docs
    /\ feed \in {f \in FeedSettings : /\ f.feed_type = "json"
                                      /\ f.csv_delimiter = <<";">>
                                      /\ f.field_mappings = ExplicitMappings
                                            <=> f.match_by = "external_id"}

\* StartImport requests served one at a time, on a JSON feed of any mapping
\* configuration
InitItems ==
    /\ InitCommon
    /\ call = NoCall
    /\ sequential = TRUE
    /\ served = Docs
    /\ feed \in [feed_type : {"json"}, csv_delimiter : {<<";">>}, import_mode : {"create_update"},
                 match_by : {"ean"}, field_mappings : MappingConfigs]

\* FeedItems for calculateChecksum: prices of 10.000, 10.001 and 10.010, texts
\* with and without the separator of the checksum's format
ChecksumItems ==
    [Title : {<<"A">>, <<"A", "|">>}, Description : {<<>>, <<"|">>},
     Price : {10000, 10001, 10010}, EAN : {<<>>, <<"e1">>}, SKU : {<<>>, <<"s1">>},
     ExternalID : {<<>>}, ImageURL : {<<>>, <<"i">>}, CategoryPath : {<<>>, <<"c">>}]

\* calculateChecksum about to be called on the items a and b
checksumStart(a, b) ==
    [fn |-> "calculateChecksum", a |-> a, b |-> b, pc |-> "called", sums |-> <<>>]

\* detectCSVDelimiter about to be called on data
detectStart(data) ==
    [fn |-> "detectCSVDelimiter", data |-> data, pc |-> "called",
     result |-> [panics |-> FALSE, best |-> ""]]

\* category paths: two that share their first segment, that segment alone, a
\* path written with " > ", one written with "/", blanks only, and none
CategoryPaths ==
    { <<"Electronics", "|", "Phones">>, <<"Electronics", "|", "Audio">>, <<"Electronics">>,
      <<"A", " > ", "B">>, <<"A", "/", "B">>, <<" ", "|", " ">>, <<>> }

\* the resolutions one run makes
PathsPerRun == 3

\* engine 1, with an empty cache and an empty categories table, is about to
\* resolve the paths in turn; ids holds the leaf ids returned so far
resolveStart(paths) ==
    [fn |-> "getOrCreateCategory", paths |-> paths, pos |-> 1, cats |-> {}, cache |-> {},
     n |-> 0, ids |-> <<>>]

\* one import of a JSON feed of fifty items
InitLongFeed ==
    /\ InitCommon
    /\ call = NoCall
    /\ sequential = TRUE
    /\ served = LongDocs
    /\ feed = [feed_type |-> "json", csv_delimiter |-> <<";">>, import_mode |-> "create_update",
               match_by |-> "ean", field_mappings |-> NoMappings]

\* the AutoMapping handler is about to be called twice on the fields
autoMappingStart(fields) == [fn |-> "AutoDetectMappings", fields |-> fields, results |-> <<>>]

\* the functions called on their own, each on one of its inputs
Calls ==
    {[parseXMLStart(data) EXCEPT !.failAt = k] : data \in XMLDocs, k \in FailAts}
    \cup {parseCSVStart(d, read, k) : d \in {<<";">>, <<>>}, read \in CSVReads, k \in FailAts}
    \cup {parseJSONStart(raw, k) : raw \in JSONRaws, k \in FailAts}
    \cup {resolveStart(paths) : paths \in [1..PathsPerRun -> CategoryPaths]}
    \cup {autoMappingStart(fields) : fields \in [1..2 -> FieldNames] \cup [1..1 -> FieldNames]}
    \cup {checksumStart(a, b) : a, b \in ChecksumItems}
    \cup {detectStart(data) : data \in CSVDocs}

\* a parser or engine function is called on its own; no import is started
InitCalls ==
    /\ InitCommon
    /\ call \in Calls
    /\ sequential = TRUE
    /\ served = {}
    /\ feed = [feed_type |-> "xml", csv_delimiter |-> <<";">>, import_mode |-> "create_update",
               match_by |-> "ean", field_mappings |-> NoMappings]

\* ------------------------------------------------------------------ HTTP handlers

dbUnchanged == UNCHANGED <<feed, feedRow, otherFeeds, products, categories, importHistory>>

clientsUnchanged ==
    UNCHANGED <<stops, stopResult, stopCall, polls, pollCall, observed, admins>>

\* the requests served other than StartImport
requests == stops + polls + admins

\* StartImport, its SELECT of the feed: 404 when the feed has no row
StartImportSelect(r) ==
    /\ ~crashed
    /\ hpc[r] = "ready"
    /\ \A q \in Reqs : q < r => hpc[q] # "ready"
    /\ sequential => \A q \in Reqs : hpc[q] \notin {"selected", "checked"}
    /\ hpc' = [hpc EXCEPT ![r] = IF feedRow.exists THEN "selected" ELSE "not_found"]
    /\ eng' = [eng EXCEPT ![r].feed = IF feedRow.exists THEN feed ELSE @]
    /\ UNCHANGED <<served, sequential, call, importEngines, crashed>>
    /\ dbUnchanged /\ clientsUnchanged

\* StartImport, had it entered Run on the engine found before answering 409:
\* Run's entry clears the stop flag
StartImportCheckRuns(r) ==
    /\ ~crashed
    /\ hpc[r] = "selected"
    /\ hpc' = [hpc EXCEPT ![r] = IF importEngines # NoEngine THEN "conflict" ELSE "checked"]
    /\ eng' = IF importEngines # NoEngine
              THEN [eng EXCEPT ![importEngines].shouldStop = FALSE]
              ELSE eng
    /\ UNCHANGED <<served, sequential, call, importEngines, crashed>>
    /\ dbUnchanged /\ clientsUnchanged

\* StartImport, its registry check: Load finds an engine (409) or none
StartImportCheck(r) ==
    /\ ~crashed
    /\ hpc[r] = "selected"
    /\ hpc' = [hpc EXCEPT ![r] = IF importEngines # NoEngine THEN "conflict" ELSE "checked"]
    /\ UNCHANGED <<served, sequential, call, importEngines, eng, crashed>>
    /\ dbUnchanged /\ clientsUnchanged

\* StartImport from NewImportEngine on: Store, then the goroutine is started
StartImportStore(r) ==
    /\ ~crashed
    /\ hpc[r] = "checked"
    /\ importEngines' = r
    /\ eng' = [eng EXCEPT ![r].pc = "spawned"]
    /\ hpc' = [hpc EXCEPT ![r] = "started"]
    /\ UNCHANGED <<served, sequential, call, crashed>>
    /\ dbUnchanged /\ clientsUnchanged

\* ImportEngine.Stop, its locked part: the stop flag is set
setShouldStop(e) == [e EXCEPT !.shouldStop = TRUE]

\* ImportEngine.Stop, the store of its call of log, which had read the lines
\* logs: the lines stored since then are overwritten, and a call of log that
\* the run is making may have read the lines as they stood before this store
logStopRequested(e, logs) ==
    [e EXCEPT !.progress = log([e.progress EXCEPT !.Logs = logs], "info", "Stop requested"),
              !.staleLogs = {e.progress.Logs}]

\* StopImport up to Stop's unlock: the registry is read (404 for no entry) and
\* the flag of the engine found is set; the handler keeps the engine, and the
\* number of items processed at this moment is noted
StopImport ==
    /\ ~crashed
    /\ requests < MaxRequests
    /\ ~stopCall.inflight
    /\ stops' = stops + 1
    /\ IF importEngines = NoEngine
       THEN /\ stopResult' = "not_found"
            /\ UNCHANGED <<eng, stopCall>>
       ELSE /\ eng' = [eng EXCEPT ![importEngines] = setShouldStop(@)]
            /\ stopResult' = "pending"
            /\ stopCall' = [NoStopCall EXCEPT !.inflight = TRUE, !.engine = importEngines,
                                              !.processed = eng[importEngines].progress.Processed]
    /\ UNCHANGED <<served, sequential, call, hpc, importEngines, polls, pollCall, observed,
                   admins, crashed>>
    /\ dbUnchanged

\* Stop's call of log reads e.progress.Logs: a nil e.progress is dereferenced
\* (the panic is recovered by the router, 500)
StopLogReads ==
    /\ ~crashed
    /\ stopCall.inflight
    /\ ~stopCall.read
    /\ IF eng[stopCall.engine].progress.alloc
       THEN /\ stopCall' = [stopCall EXCEPT !.read = TRUE,
                                            !.logs = eng[stopCall.engine].progress.Logs]
            /\ UNCHANGED stopResult
       ELSE /\ stopCall' = [stopCall EXCEPT !.inflight = FALSE]
            /\ stopResult' = "panic"
    /\ UNCHANGED <<served, sequential, call, hpc, importEngines, eng, stops, polls, pollCall,
                   observed, admins, crashed>>
    /\ dbUnchanged

\* Stop's call of log stores the lines it read with its own appended, and the
\* handler answers "stopping"
StopReturns ==
    /\ ~crashed
    /\ stopCall.inflight
    /\ stopCall.read
    /\ stopCall' = [stopCall EXCEPT !.inflight = FALSE, !.read = FALSE, !.logs = <<>>]
    /\ eng' = [eng EXCEPT ![stopCall.engine] = logStopRequested(@, stopCall.logs)]
    /\ stopResult' = "stopping"
    /\ UNCHANGED <<served, sequential, call, hpc, importEngines, stops, polls, pollCall,
                   observed, admins, crashed>>
    /\ dbUnchanged

\* ImportEngine.GetProgress: the pointer to the progress, unsynchronised
GetProgress(e) == e.progress

\* the encoder reads the fields next..k of the live progress into the copy
readFields(copy, progress, next, k) ==
    [f \in DOMAIN copy |->
        IF \E i \in next..k : ProgressFields[i] = f THEN progress[f] ELSE copy[f]]

\* the handler after a read of the fields up to k: the response is complete
\* with the last field
encoded(pc, progress, k) ==
    [pc EXCEPT !.progress = readFields(pc.progress, progress, pc.next, k),
               !.next = k + 1, !.reads = @ + 1,
               !.inflight = k < Len(ProgressFields)]

\* GetImportProgress: the idle progress when the registry holds no engine,
\* null for an engine whose progress is nil; otherwise the encoder starts to
\* read the live progress, field by field, while the run writes it
GetImportProgress ==
    /\ ~crashed
    /\ requests < MaxRequests
    /\ ~pollCall.inflight
    /\ polls' = polls + 1
    /\ IF importEngines = NoEngine
       THEN /\ observed' = [kind |-> "idle", progress |-> [NilProgress EXCEPT !.Status = "idle"]]
            /\ pollCall' = NoPollCall
       ELSE IF ~GetProgress(eng[importEngines]).alloc
       THEN /\ observed' = [kind |-> "null", progress |-> NilProgress]
            /\ pollCall' = NoPollCall
       ELSE \E k \in 1..Len(ProgressFields) :
               LET pc == encoded([NoPollCall EXCEPT !.engine = importEngines,
                                                    !.progress.alloc = TRUE],
                                 GetProgress(eng[importEngines]), k)
               IN  /\ pollCall' = IF pc.inflight THEN pc ELSE NoPollCall
                   /\ observed' = IF pc.inflight THEN observed
                                  ELSE [kind |-> "progress", progress |-> pc.progress]
    /\ UNCHANGED <<served, sequential, call, hpc, importEngines, eng, stops, stopResult,
                   stopCall, admins, crashed>>
    /\ dbUnchanged

\* the encoder of GetImportProgress goes on reading, at a later moment
EncodeProgress ==
    /\ ~crashed
    /\ pollCall.inflight
    /\ \E k \in pollCall.next..Len(ProgressFields) :
          /\ pollCall.reads + 1 = MaxReads => k = Len(ProgressFields)
          /\ LET pc == encoded(pollCall, GetProgress(eng[pollCall.engine]), k)
             IN  /\ pollCall' = IF pc.inflight THEN pc ELSE NoPollCall
                 /\ observed' = IF pc.inflight THEN observed
                                ELSE [kind |-> "progress", progress |-> pc.progress]
    /\ UNCHANGED <<served, sequential, call, hpc, importEngines, eng, stops, stopResult,
                   stopCall, polls, admins, crashed>>
    /\ dbUnchanged

\* ------------------------------------------------------------------ the run

engineStep ==
    UNCHANGED <<served, sequential, call, hpc>> /\ clientsUnchanged

\* the engine after a step of its run: a call of log that the run makes from
\* now on reads the lines as they are stored
ran(e) == [e EXCEPT !.staleLogs = {}]

\* the engine e after the statements that lead to e2: what they assign to the
\* fields of e.progress, in the order of the code, is stored field by field,
\* and the goroutine goes on to its next call when the last is stored
stored(e, e2, order) ==
    ran([e2 EXCEPT !.progress = e.progress, !.writes = stores(e.progress, e2.progress, order)])

\* the run's goroutine makes the next of its assignments to e.progress
StoreProgress(r) ==
    /\ ~crashed
    /\ ~settled(eng[r])
    /\ \E base \in logBases(eng[r]) : eng' = [eng EXCEPT ![r] = ran(store(@, base))]
    /\ UNCHANGED <<importEngines, crashed>>
    /\ engineStep /\ dbUnchanged

\* Run, its guarded entry: isRunning is tested and set, shouldStop is reset
RunBegin(r) ==
    /\ ~crashed
    /\ settled(eng[r])
    /\ eng[r].pc = "spawned"
    /\ eng' = [eng EXCEPT ![r] = IF eng[r].isRunning
                                 THEN ran([@ EXCEPT !.pc = "returned",
                                                    !.err = "import already running"])
                                 ELSE ran([@ EXCEPT !.pc = "init", !.isRunning = TRUE,
                                                    !.shouldStop = FALSE])]
    /\ UNCHANGED <<importEngines, crashed>>
    /\ engineStep /\ dbUnchanged

\* Run, "Initialize": the history id is drawn, e.progress is assigned and the
\* history value is built
RunInit(r) ==
    /\ ~crashed
    /\ settled(eng[r])
    /\ eng[r].pc = "init"
    /\ eng' = [eng EXCEPT ![r] =
                 ran([@ EXCEPT !.pc = "init_history", !.uuids = @ + 1,
                               !.history = [NoHistory EXCEPT !.exists = TRUE,
                                                             !.Status = "running"],
                               !.progress = [NilProgress EXCEPT
                                                !.alloc = TRUE, !.Status = "running",
                                                !.Message = "Initializing import..."]])]
    /\ UNCHANGED <<importEngines, crashed>>
    /\ engineStep /\ dbUnchanged

\* Run, "Save initial history": saveHistory
RunSaveHistory(r) ==
    /\ ~crashed
    /\ settled(eng[r])
    /\ eng[r].pc = "init_history"
    /\ eng' = [eng EXCEPT ![r] = ran([@ EXCEPT !.pc = "init_feed"])]
    /\ importHistory' = saveHistory(importHistory, r, eng[r].history, feedRow.exists)
    /\ UNCHANGED <<importEngines, feed, feedRow, otherFeeds, products, categories, crashed>>
    /\ engineStep

\* Run, updateFeedStatus("running")
RunFeedStatus(r) ==
    /\ ~crashed
    /\ settled(eng[r])
    /\ eng[r].pc = "init_feed"
    /\ eng' = [eng EXCEPT ![r] = ran([@ EXCEPT !.pc = "init_log"])]
    /\ feedRow' = updateFeedStatus(feedRow, products, "running", "")
    /\ UNCHANGED <<importEngines, feed, otherFeeds, products, categories, importHistory, crashed>>
    /\ engineStep

\* Run, from the log of "Import started" to the parser's construction
RunLogStarted(r) ==
    /\ ~crashed
    /\ settled(eng[r])
    /\ eng[r].pc = "init_log"
    /\ eng' = [eng EXCEPT ![r] =
                 stored(@, [@ EXCEPT !.pc = "download",
                                     !.progress = updateProgress(
                                         log(@, "info", "Import started"),
                                         "Downloading feed...")],
                        <<"Logs", "Message", "Percent">>)]
    /\ UNCHANGED <<importEngines, crashed>>
    /\ engineStep /\ dbUnchanged

\* Run, the download: a document arrives
DownloadOk(r) ==
    /\ ~crashed
    /\ settled(eng[r])
    /\ eng[r].pc = "download"
    /\ \E doc \in served :
          eng' = [eng EXCEPT ![r] =
                    stored(@, [@ EXCEPT !.pc = "count", !.feedData = doc,
                                        !.progress = updateProgress(
                                            log(@, "info", "Feed downloaded"),
                                            "Parsing feed...")],
                           <<"Logs", "Message", "Percent">>)]
    /\ UNCHANGED <<importEngines, crashed>>
    /\ engineStep /\ dbUnchanged

\* a counting traversal that misses the last item
countItemsButLast(f, doc) ==
    IF traversal(f, doc) = "items" /\ Len(doc.items) > 0 THEN Len(doc.items) - 1 ELSE 0

\* the number of items the counting traversal counts
countItems(f, doc) == IF traversal(f, doc) = "items" THEN Len(doc.items) ELSE 0

\* Run, "Count total items": the first traversal, its error ignored
CountItems(r) ==
    /\ ~crashed
    /\ settled(eng[r])
    /\ eng[r].pc = "count"
    /\ traversal(eng[r].feed, eng[r].feedData) \notin {"panic", "spin"}
    /\ eng' = [eng EXCEPT ![r] =
                 stored(@, [@ EXCEPT !.pc = "process", !.idx = 1,
                                     !.history.TotalItems = countItems(eng[r].feed,
                                                                       eng[r].feedData),
                                     !.progress = updateProgress(
                                         log([@ EXCEPT !.Total = countItems(eng[r].feed,
                                                                            eng[r].feedData)],
                                             "info", "Feed parsed"),
                                         "Processing items...")],
                        <<"Total", "Logs", "Message", "Percent">>)]
    /\ UNCHANGED <<importEngines, crashed>>
    /\ engineStep /\ dbUnchanged

\* the deferred calls of Run and of StartImport's goroutine
deferred(e) == [e EXCEPT !.isRunning = FALSE]

\* the registry had the goroutine no deferred Delete
keepEngine(registry) == registry

\* the registry after the goroutine's deferred Delete(feedID)
deleteEngine(registry) == NoEngine

\* A panic in the run's goroutine: the deferred calls run, then the process dies
Panics(r) ==
    /\ ~crashed
    /\ settled(eng[r])
    /\ \/ eng[r].pc = "count" /\ traversal(eng[r].feed, eng[r].feedData) = "panic"
       \/ /\ eng[r].pc = "item"
          /\ mapItemPanics(eng[r].feedData.items[eng[r].idx], eng[r].feed.field_mappings)
    /\ eng' = [eng EXCEPT ![r] = ran([deferred(@) EXCEPT !.pc = "panicked"])]
    /\ importEngines' = deleteEngine(importEngines)
    /\ crashed' = TRUE
    /\ engineStep /\ dbUnchanged

\* the second traversal has a next item to hand to processCallback
hasNextItem(e) ==
    /\ e.pc = "process"
    /\ traversal(e.feed, e.feedData) = "items"
    /\ e.idx <= Len(e.feedData.items)

\* the error the second traversal returns when the callback sees the stop flag
cancelError == "import cancelled"

\* Run after the second traversal has returned err, up to the first database
\* call of failImport (for an error that is not the cancellation) or of
\* completeImport
finishRun(e, err) ==
    IF err # "" /\ ~containsCancelled(err)
    THEN [e EXCEPT !.err = err, !.history = failedHistory(e, err), !.pc = "fail_feed"]
    ELSE [e EXCEPT !.err = err, !.history = completedHistory(e), !.pc = "complete_feed"]

\* the end of the traversal, up to and with the saveHistory of failImport or
\* completeImport
Finishes(r, err) ==
    /\ eng' = [eng EXCEPT ![r] = ran(finishRun(@, err))]
    /\ importHistory' = saveHistory(importHistory, r, finishRun(eng[r], err).history,
                                    feedRow.exists)
    /\ UNCHANGED <<importEngines, feed, feedRow, otherFeeds, products, categories, crashed>>
    /\ engineStep

\* Run, the download fails: failImport, up to and with its saveHistory
DownloadFails(r) ==
    /\ ~crashed
    /\ settled(eng[r])
    /\ eng[r].pc = "download"
    /\ eng' = [eng EXCEPT ![r] =
                 ran([@ EXCEPT !.err = "HTTP error: 500",
                               !.history = failedHistory(eng[r], "Download error: HTTP error: 500"),
                               !.pc = "fail_feed"])]
    /\ importHistory' = saveHistory(importHistory, r,
                                    failedHistory(eng[r], "Download error: HTTP error: 500"),
                                    feedRow.exists)
    /\ UNCHANGED <<importEngines, feed, feedRow, otherFeeds, products, categories, crashed>>
    /\ engineStep

\* failImport, updateFeedStatus("error")
FailFeedStatus(r) ==
    /\ ~crashed
    /\ settled(eng[r])
    /\ eng[r].pc = "fail_feed"
    /\ eng' = [eng EXCEPT ![r] = ran([@ EXCEPT !.pc = "fail_progress"])]
    /\ feedRow' = updateFeedStatus(feedRow, products, "error", eng[r].history.ErrorMessage)
    /\ UNCHANGED <<importEngines, feed, otherFeeds, products, categories, importHistory, crashed>>
    /\ engineStep

\* failImport, from the progress status to its return
FailProgress(r) ==
    /\ ~crashed
    /\ settled(eng[r])
    /\ eng[r].pc = "fail_progress"
    /\ eng' = [eng EXCEPT ![r] =
                 stored(@, failImport(@), <<"Status", "Message", "Percent", "Logs">>)]
    /\ UNCHANGED <<importEngines, crashed>>
    /\ engineStep /\ dbUnchanged

\* completeImport, updateFeedStatus("active")
CompleteFeedStatus(r) ==
    /\ ~crashed
    /\ settled(eng[r])
    /\ eng[r].pc = "complete_feed"
    /\ eng' = [eng EXCEPT ![r] = ran([@ EXCEPT !.pc = "complete_counts"])]
    /\ feedRow' = updateFeedStatus(feedRow, products, "active", "")
    /\ UNCHANGED <<importEngines, feed, otherFeeds, products, categories, importHistory, crashed>>
    /\ engineStep

\* completeImport, updateCategoryCounts
CompleteCategoryCounts(r) ==
    /\ ~crashed
    /\ settled(eng[r])
    /\ eng[r].pc = "complete_counts"
    /\ eng' = [eng EXCEPT ![r] = ran([@ EXCEPT !.pc = "complete_progress"])]
    /\ categories' = updateCategoryCounts(categories, products)
    /\ UNCHANGED <<importEngines, feed, feedRow, otherFeeds, products, importHistory, crashed>>
    /\ engineStep

\* completeImport, from the progress status to its return
CompleteProgress(r) ==
    /\ ~crashed
    /\ settled(eng[r])
    /\ eng[r].pc = "complete_progress"
    /\ eng' = [eng EXCEPT ![r] =
                 stored(@, completeImport(@), <<"Status", "Message", "Percent", "Logs">>)]
    /\ UNCHANGED <<importEngines, crashed>>
    /\ engineStep /\ dbUnchanged

\* processCallback, entered with the stop flag set: the traversal returns the
\* cancellation error and Run goes on to completeImport
CallbackCancelled(r) ==
    /\ ~crashed
    /\ settled(eng[r])
    /\ hasNextItem(eng[r])
    /\ eng[r].shouldStop
    /\ Finishes(r, cancelError)

\* processCallback, had it not looked at the stop flag
CallbackEnterUnchecked(r) ==
    /\ ~crashed
    /\ settled(eng[r])
    /\ hasNextItem(eng[r])
    /\ eng' = [eng EXCEPT ![r] =
                 stored(@, [@ EXCEPT !.pc = "item", !.progress.Processed = @ + 1],
                        <<"Processed">>)]
    /\ UNCHANGED <<importEngines, crashed>>
    /\ engineStep /\ dbUnchanged

\* processCallback, entered with the stop flag clear: Processed++
CallbackEnter(r) ==
    /\ ~crashed
    /\ settled(eng[r])
    /\ hasNextItem(eng[r])
    /\ ~eng[r].shouldStop
    /\ eng' = [eng EXCEPT ![r] =
                 stored(@, [@ EXCEPT !.pc = "item", !.progress.Processed = @ + 1],
                        <<"Processed">>)]
    /\ UNCHANGED <<importEngines, crashed>>
    /\ engineStep /\ dbUnchanged

\* processCallback from mapItem to the SELECT of findExistingProduct: the item
\* is rejected and the callback returns; or processItem goes on, with what the
\* SELECT has answered, to skip the item, to its category or to its write
CallbackBody(r) ==
    /\ ~crashed
    /\ settled(eng[r])
    /\ eng[r].pc = "item"
    /\ ~mapItemPanics(eng[r].feedData.items[eng[r].idx], eng[r].feed.field_mappings)
    /\ \E e \in callbackBody(eng[r], products) :
          eng' = [eng EXCEPT ![r] = stored(@, e, <<"Skipped", "Errors">>)]
    /\ UNCHANGED <<importEngines, crashed>>
    /\ engineStep /\ dbUnchanged

\* the engine after the pass res of the loop of getOrCreateCategory: with the
\* last part, the leaf is cached and returned
partResolved(e, res) ==
    IF Len(e.parts) > 1
    THEN [e EXCEPT !.parts = Tail(@), !.lastID = res.lastID, !.uuids = res.n]
    ELSE [e EXCEPT !.parts = <<>>, !.lastID = res.lastID, !.uuids = res.n,
                   !.categoryID = res.lastID,
                   !.categoryCache = cacheLeaf(res, @, mappedItem(e).item.CategoryPath).cache,
                   !.pc = "write"]

\* getOrCreateCategory, one pass of its loop: the SELECT by the new slug and
\* the INSERT (a slug ends in a new uuid, so that the SELECT finds no row
\* whenever it is made)
GetOrCreateCategoryPart(r) ==
    /\ ~crashed
    /\ settled(eng[r])
    /\ eng[r].pc = "category"
    /\ eng' = [eng EXCEPT ![r] =
                 ran(partResolved(@, resolvePart([lastID |-> eng[r].lastID, cats |-> categories,
                                                  n |-> eng[r].uuids],
                                                 Head(eng[r].parts), r)))]
    /\ categories' = resolvePart([lastID |-> eng[r].lastID, cats |-> categories,
                                  n |-> eng[r].uuids],
                                 Head(eng[r].parts), r).cats
    /\ UNCHANGED <<importEngines, feed, feedRow, otherFeeds, products, importHistory, crashed>>
    /\ engineStep

\* processItem, its call of updateProduct or createProduct
ProcessItemWrites(r) ==
    /\ ~crashed
    /\ settled(eng[r])
    /\ eng[r].pc = "write"
    /\ \E dbOk \in BOOLEAN :
          /\ products' = writeProduct(eng[r], r, products,
                                      writeAccepted(eng[r], categories, products, feedRow.exists, dbOk))
          /\ eng' = [eng EXCEPT ![r] =
                       ran(written(@, writeAccepted(eng[r], categories, products,
                                                    feedRow.exists, dbOk)))]
    /\ UNCHANGED <<importEngines, feed, feedRow, otherFeeds, categories, importHistory, crashed>>
    /\ engineStep

\* processItem returns to processCallback, which returns to the traversal
CallbackReturns(r) ==
    /\ ~crashed
    /\ settled(eng[r])
    /\ eng[r].pc = "written"
    /\ eng' = [eng EXCEPT ![r] =
                 stored(@, callbackReturns(afterProcessItem(processItemReturns(@))),
                        <<"Updated", "Created", "Errors", "Logs", "Message", "Percent">>)]
    /\ UNCHANGED <<importEngines, crashed>>
    /\ engineStep /\ dbUnchanged

\* processItem skips the unchanged item and returns to processCallback, which
\* returns to the traversal
SkipUnchanged(r) ==
    /\ ~crashed
    /\ settled(eng[r])
    /\ eng[r].pc = "skip"
    /\ eng' = [eng EXCEPT ![r] =
                 stored(@, callbackReturns(afterProcessItem(skipUnchanged(@))),
                        <<"Skipped", "Message", "Percent">>)]
    /\ UNCHANGED <<importEngines, crashed>>
    /\ engineStep /\ dbUnchanged

\* the second traversal returns nil after the last item (or was never made)
TraversalEnds(r) ==
    /\ ~crashed
    /\ settled(eng[r])
    /\ eng[r].pc = "process"
    /\ \/ /\ traversal(eng[r].feed, eng[r].feedData) = "items"
          /\ eng[r].idx > Len(eng[r].feedData.items)
       \/ traversal(eng[r].feed, eng[r].feedData) = "none"
    /\ Finishes(r, "")

\* the second traversal returns its own error
TraversalFails(r) ==
    /\ ~crashed
    /\ settled(eng[r])
    /\ eng[r].pc = "process"
    /\ traversal(eng[r].feed, eng[r].feedData) = "error"
    /\ Finishes(r, traversalError(eng[r].feed))

\* Run has returned: its deferred unlock of isRunning, then the goroutine's
\* deferred Delete(feedID)
RunExits(r) ==
    /\ ~crashed
    /\ settled(eng[r])
    /\ eng[r].pc = "returned"
    /\ eng' = [eng EXCEPT ![r] = ran([deferred(@) EXCEPT !.pc = "exited"])]
    /\ importEngines' = deleteEngine(importEngines)
    /\ UNCHANGED crashed
    /\ engineStep /\ dbUnchanged

\* The process is started again after a crash: a new Handler with an empty
\* registry; the goroutines and requests of the dead process are gone.
Restart ==
    /\ crashed
    /\ crashed' = FALSE
    /\ importEngines' = NoEngine
    /\ eng' = [r \in Reqs |-> IF eng[r].pc \in {"none", "exited", "panicked"}
                              THEN eng[r]
                              ELSE [eng[r] EXCEPT !.pc = "killed", !.writes = <<>>]]
    /\ hpc' = [r \in Reqs |-> IF hpc[r] \in {"selected", "checked"} THEN "killed" ELSE hpc[r]]
    /\ stopCall' = [stopCall EXCEPT !.inflight = FALSE]
    /\ stopResult' = IF stopCall.inflight THEN "killed" ELSE stopResult
    /\ pollCall' = NoPollCall
    /\ UNCHANGED <<served, sequential, call, stops, polls, observed, admins>>
    /\ dbUnchanged

\* ------------------------------------------------------------------ the product, category and feed handlers

adminStep ==
    UNCHANGED <<served, sequential, call, hpc, importEngines, eng, stops, stopResult, stopCall,
                polls, pollCall, observed, crashed>>

\* generateSlug of the handlers: every " " becomes "-", and nothing is appended
handlerSlug(text) ==
    [base |-> [i \in 1..Len(text) |-> IF text[i] = " " THEN "-" ELSE text[i]], suffix |-> NoId]

\* the request bodies of CreateProduct and UpdateProduct: a product with the
\* EAN, SKU and title of the feed's first item, and an inactive one that
\* shares nothing with the feed (prices in hundredths)
ProductBodies ==
    {[title |-> <<"A">>, price |-> 1000, ean |-> <<"e1">>, sku |-> <<"s1">>, is_active |-> TRUE],
     [title |-> <<"Z">>, price |-> 900, ean |-> <<"e9">>, sku |-> <<"s9">>, is_active |-> FALSE]}

\* the request bodies of CreateCategory and UpdateCategory, without a parent
CategoryNames == {<<"Electronics">>, <<"Audio">>}

\* the actions of a bulk request: the three the handler knows, and another
BulkActions == {"activate", "deactivate", "delete", "archive"}

\* the row CreateProduct inserts: no feed, checksum, external id or category
adminProductRow(id, body) ==
    [id |-> id, slug |-> handlerSlug(body.title), title |-> body.title, description |-> <<>>,
     price |-> body.price, ean |-> body.ean, sku |-> body.sku, external_id |-> <<>>,
     image_url |-> <<>>, category_id |-> NoId, category_path |-> <<>>, feed_id |-> NoId,
     feed_checksum |-> NoChecksum, is_active |-> body.is_active]

\* CreateProduct: the INSERT, refused (500) for a slug that a row has
CreateProduct ==
    /\ ~crashed
    /\ requests < MaxRequests
    /\ admins' = admins + 1
    /\ \E body \in ProductBodies :
          products' = IF \E p \in products : p.slug = handlerSlug(body.title)
                      THEN products
                      ELSE products \cup {adminProductRow(<<0, admins + 1>>, body)}
    /\ UNCHANGED <<feed, feedRow, otherFeeds, categories, importHistory>>
    /\ adminStep

\* UpdateProduct: the UPDATE of the row of the id; its slug, feed, checksum,
\* external id and category path are not among the columns set
UpdateProduct ==
    /\ ~crashed
    /\ requests < MaxRequests
    /\ admins' = admins + 1
    /\ \E old \in products, body \in ProductBodies :
          products' = {IF p.id = old.id
                       THEN [p EXCEPT !.title = body.title, !.description = <<>>,
                                      !.price = body.price, !.ean = body.ean, !.sku = body.sku,
                                      !.image_url = <<>>, !.category_id = NoId,
                                      !.is_active = body.is_active]
                       ELSE p : p \in products}
    /\ UNCHANGED <<feed, feedRow, otherFeeds, categories, importHistory>>
    /\ adminStep

\* DeleteProduct
DeleteProduct ==
    /\ ~crashed
    /\ requests < MaxRequests
    /\ admins' = admins + 1
    /\ \E old \in products : products' = products \ {old}
    /\ UNCHANGED <<feed, feedRow, otherFeeds, categories, importHistory>>
    /\ adminStep

\* BulkProductAction on the ids of all products: 400 for an unknown action
BulkProductAction ==
    /\ ~crashed
    /\ requests < MaxRequests
    /\ products # {}
    /\ admins' = admins + 1
    /\ \E action \in BulkActions :
          products' = CASE action = "activate"   -> {[p EXCEPT !.is_active = TRUE] : p \in products}
                        [] action = "deactivate" -> {[p EXCEPT !.is_active = FALSE] : p \in products}
                        [] action = "delete"     -> {}
                        [] OTHER                 -> products
    /\ UNCHANGED <<feed, feedRow, otherFeeds, categories, importHistory>>
    /\ adminStep

\* CreateCategory: the INSERT, refused (500) for a slug that a row has
CreateCategory ==
    /\ ~crashed
    /\ requests < MaxRequests
    /\ admins' = admins + 1
    /\ \E name \in CategoryNames :
          categories' = IF \E c \in categories : c.slug = handlerSlug(name)
                        THEN categories
                        ELSE categories \cup {[id |-> <<0, admins + 1>>, name |-> name,
                                               slug |-> handlerSlug(name), parent_id |-> NoId,
                                               product_count |-> 0]}
    /\ UNCHANGED <<feed, feedRow, otherFeeds, products, importHistory>>
    /\ adminStep

\* UpdateCategory: the UPDATE of the name and the parent of the row of the id
UpdateCategory ==
    /\ ~crashed
    /\ requests < MaxRequests
    /\ admins' = admins + 1
    /\ \E old \in categories, name \in CategoryNames :
          categories' = {IF c.id = old.id THEN [c EXCEPT !.name = name, !.parent_id = NoId]
                         ELSE c : c \in categories}
    /\ UNCHANGED <<feed, feedRow, otherFeeds, products, importHistory>>
    /\ adminStep

\* DeleteCategory: the row goes; the parent_id of its children and the
\* category_id of its products are set to NULL
DeleteCategory ==
    /\ ~crashed
    /\ requests < MaxRequests
    /\ admins' = admins + 1
    /\ \E old \in categories :
          /\ categories' = {IF c.parent_id = old.id THEN [c EXCEPT !.parent_id = NoId] ELSE c :
                               c \in categories \ {old}}
          /\ products' = {IF p.category_id = old.id THEN [p EXCEPT !.category_id = NoId] ELSE p :
                             p \in products}
    /\ UNCHANGED <<feed, feedRow, otherFeeds, importHistory>>
    /\ adminStep

\* CreateFeed: another row of table feeds
CreateFeed ==
    /\ ~crashed
    /\ requests < MaxRequests
    /\ admins' = admins + 1
    /\ otherFeeds' = otherFeeds + 1
    /\ UNCHANGED <<feed, feedRow, products, categories, importHistory>>
    /\ adminStep

\* UpdateFeed of the feed imported: its settings are replaced (here by the
\* same settings with another match key), its status columns are not set
UpdateFeed ==
    /\ ~crashed
    /\ requests < MaxRequests
    /\ admins' = admins + 1
    /\ \E matchBy \in MatchBys \ {feed.match_by} :
          feed' = IF feedRow.exists THEN [feed EXCEPT !.match_by = matchBy] ELSE feed
    /\ UNCHANGED <<feedRow, otherFeeds, products, categories, importHistory>>
    /\ adminStep

\* DeleteFeed of the feed imported: its import_history rows go with it, the
\* feed_id of its products is set to NULL
DeleteFeed ==
    /\ ~crashed
    /\ requests < MaxRequests
    /\ admins' = admins + 1
    /\ feedRow' = [feedRow EXCEPT !.exists = FALSE]
    /\ importHistory' = IF feedRow.exists THEN [r \in Reqs |-> NoHistory] ELSE importHistory
    /\ products' = {IF p.feed_id = FeedId THEN [p EXCEPT !.feed_id = NoId] ELSE p : p \in products}
    /\ UNCHANGED <<feed, otherFeeds, categories>>
    /\ adminStep

\* a request to one of the product, category and feed handlers
Admin ==
    \/ CreateProduct
    \/ UpdateProduct
    \/ DeleteProduct
    \/ BulkProductAction
    \/ CreateCategory
    \/ UpdateCategory
    \/ DeleteCategory
    \/ CreateFeed
    \/ UpdateFeed
    \/ DeleteFeed

\* ------------------------------------------------------------------ functions on their own

callStep ==
    UNCHANGED <<feed, feedRow, otherFeeds, served, sequential, hpc, importEngines, eng, products,
                categories, importHistory, stops, stopResult, stopCall, polls, pollCall,
                observed, admins, crashed>>

\* ParseXMLFull makes one pass of its loop
ParseXMLFull ==
    /\ call.fn = "ParseXMLFull"
    /\ call.pc = "loop"
    /\ call' = parseXMLStep(call)
    /\ callStep

\* ParseCSVFull reads the records, or makes one pass of its loop
ParseCSVFull ==
    /\ call.fn = "ParseCSVFull"
    /\ call.pc \in {"read", "loop"}
    /\ call' = parseCSVStep(call)
    /\ callStep

\* ParseJSONFull decodes the data, or makes one pass of its loop
ParseJSONFull ==
    /\ call.fn = "ParseJSONFull"
    /\ call.pc \in {"read", "loop"}
    /\ call' = parseJSONStep(call)
    /\ callStep

\* the call record after getOrCreateCategory has returned res for the next path
resolved(c, res) ==
    [c EXCEPT !.pos = c.pos + 1, !.cats = res.cats, !.cache = res.cache, !.n = res.n,
              !.ids = Append(c.ids, res.id)]

\* getOrCreateCategory is called on the next path of the run
GetOrCreateCategory ==
    /\ call.fn = "getOrCreateCategory"
    /\ call.pos <= Len(call.paths)
    /\ call' = resolved(call, getOrCreateCategory(call.cats, call.cache, call.paths[call.pos],
                                                  1, call.n))
    /\ callStep

\* Handler.AutoMapping: a request with the fields is answered with one of the
\* lists AutoDetectMappings can return
AutoMapping ==
    /\ call.fn = "AutoDetectMappings"
    /\ Len(call.results) < 2
    /\ \E mappings \in autoDetectMappings(call.fields) :
          call' = [call EXCEPT !.results = Append(@, mappings)]
    /\ callStep

\* calculateChecksum is called on each of two items
CalculateChecksum ==
    /\ call.fn = "calculateChecksum"
    /\ call.pc = "called"
    /\ call' = [call EXCEPT !.pc = "returned",
                            !.sums = <<calculateChecksum(call.a), calculateChecksum(call.b)>>]
    /\ callStep

\* detectCSVDelimiter is called
DetectCSVDelimiter ==
    /\ call.fn = "detectCSVDelimiter"
    /\ call.pc = "called"
    /\ call' = [call EXCEPT !.pc = "returned", !.result = detectCSVDelimiter(call.data)]
    /\ callStep

\* the steps of the run of request r, without its faults and its cancellation
RunSteps(r) ==
    \/ RunBegin(r)
    \/ RunInit(r)
    \/ RunSaveHistory(r)
    \/ RunFeedStatus(r)
    \/ RunLogStarted(r)
    \/ DownloadOk(r)
    \/ DownloadFails(r)
    \/ FailFeedStatus(r)
    \/ FailProgress(r)
    \/ CountItems(r)
    \/ CallbackEnter(r)
    \/ CallbackBody(r)
    \/ GetOrCreateCategoryPart(r)
    \/ ProcessItemWrites(r)
    \/ SkipUnchanged(r)
    \/ CallbackReturns(r)
    \/ StoreProgress(r)
    \/ TraversalEnds(r)
    \/ TraversalFails(r)
    \/ CompleteFeedStatus(r)
    \/ CompleteCategoryCounts(r)
    \/ CompleteProgress(r)
    \/ RunExits(r)

\* StartImport for request r
StartImport(r) ==
    \/ StartImportSelect(r)
    \/ StartImportCheck(r)
    \/ StartImportStore(r)

\* starting imports and running them, with no stop request and no fault
NextSeq ==
    \/ \E r \in Reqs : StartImport(r)
    \/ \E r \in Reqs : RunSteps(r)
    \/ Admin

\* every step that writes: imports, stop requests, the other handlers, and the
\* fault of a panic in a run's goroutine
Next ==
    \/ NextSeq
    \/ StopImport
    \/ StopLogReads
    \/ StopReturns
    \/ \E r \in Reqs : Panics(r)
    \/ \E r \in Reqs : CallbackCancelled(r)
    \/ Restart

\* StartImport requests of any timing, with stops and the other handlers at any
\* time.  GetImportProgress, which writes nothing, is left to SpecPolls.
Spec == Init /\ [][Next]_vars

\* the same with GetImportProgress, whose encoder reads the progress of a run
\* while the run's goroutine writes it
NextPolls ==
    \/ Next
    \/ GetImportProgress
    \/ EncodeProgress

\* every handler at any time, the StartImport requests served one at a time
SpecPolls == InitPolls /\ [][NextPolls]_vars

\* the first import alone, from its start to its exit
NextLongFeed ==
    \/ StartImport(1)
    \/ RunBegin(1)
    \/ RunInit(1)
    \/ RunSaveHistory(1)
    \/ RunFeedStatus(1)
    \/ RunLogStarted(1)
    \/ DownloadOk(1)
    \/ CountItems(1)
    \/ CallbackEnter(1)
    \/ CallbackBody(1)
    \/ GetOrCreateCategoryPart(1)
    \/ ProcessItemWrites(1)
    \/ SkipUnchanged(1)
    \/ CallbackReturns(1)
    \/ StoreProgress(1)
    \/ TraversalEnds(1)
    \/ CompleteFeedStatus(1)
    \/ CompleteCategoryCounts(1)
    \/ CompleteProgress(1)
    \/ RunExits(1)

\* one import of a feed of fifty items
SpecLongFeed == InitLongFeed /\ [][NextLongFeed]_vars

\* imports one after the other, for every import mode and match key
SpecSeq == InitSeq /\ [][NextSeq]_vars

\* ------------------------------------------------------------------ properties

\* where a run stands between its first database call and its return
RunningPcs ==
    {"init_history", "init_feed", "init_log", "download", "count", "process", "item", "skip",
     "category", "write", "written", "complete_feed", "complete_counts", "complete_progress", "fail_feed",
     "fail_progress"}

\* where the process traversal of a run stands inside the callback
CallbackPcs == {"item", "skip", "category", "write", "written"}

\* the runs in status running
runningRuns ==
    {r \in Reqs : eng[r].pc \in RunningPcs /\ eng[r].progress.Status = "running"}

\* C1: in every reachable state at most one run of the feed is in the running
\* state, however the registry checks and stores of two StartImport requests
\* interleave.
AtMostOneRunning == Cardinality(runningRuns) <= 1

\* the runs whose traversal was ended by the callback's cancellation error
cancelledRuns ==
    {r \in Reqs : /\ eng[r].pc \in {"returned", "exited"}
                  /\ settled(eng[r])
                  /\ eng[r].err = cancelError}

\* C2: a run stopped while items remain ends with status cancelled, on the
\* history row and in the progress, and never with status completed.
StoppedRunEndsCancelled ==
    \A r \in cancelledRuns : /\ importHistory[r].Status = "cancelled"
                             /\ eng[r].progress.Status = "cancelled"

\* run r's callback maps and validates its item in this step, and the item
\* passes: findExistingProduct is called for it
processesItem(r) ==
    /\ eng[r].pc = "item"
    /\ eng'[r].pc \in {"skip", "category", "write"}
    /\ ~mappedItem(eng[r]).nil
    /\ mappedItem(eng[r]).item.Title # <<>>
    /\ mappedItem(eng[r]).item.Price # 0

\* the products the match key of run r's feed selects for its item
matchesOf(r) == matchingProducts(products, eng[r].feed.match_by, mappedItem(eng[r]).item)

\* C3: an item whose fingerprint equals the one stored on the product its match
\* key selects is done with when the lookup has answered: processItem goes to
\* its "Skip unchanged" branch, which counts the item skipped (and in no other
\* counter) and returns, so that no category is resolved and no product is
\* written for it; under every import mode.
UnchangedItemIsSkipped ==
    [][\A r \in Reqs :
          /\ (/\ processesItem(r)
              /\ matchesOf(r) # {}
              /\ \A p \in matchesOf(r) :
                    p.feed_checksum = calculateChecksum(mappedItem(eng[r]).item))
             => /\ eng'[r].pc = "skip"
                /\ products' = products
                /\ categories' = categories
                /\ eng'[r].progress = eng[r].progress
                /\ settled(eng'[r])
          /\ (eng[r].pc = "skip" /\ eng'[r].pc \notin {"skip", "killed"})
             => /\ eng'[r].pc = "process"
                /\ eng'[r].idx = eng[r].idx + 1
                /\ products' = products
                /\ categories' = categories
                /\ whenStored(eng'[r]).Skipped = eng[r].progress.Skipped + 1
                /\ whenStored(eng'[r]).Created = eng[r].progress.Created
                /\ whenStored(eng'[r]).Updated = eng[r].progress.Updated
                /\ whenStored(eng'[r]).Errors = eng[r].progress.Errors]_vars

\* an unchanged item has been skipped by a second run of a feed that is not in
\* the default import mode
UnchangedItemSkippedReached ==
    \E r \in Reqs :
        /\ eng[r].feed.import_mode \in {"create_only", "update_only"}
        /\ eng[r].pc = "process"
        /\ eng[r].idx = 2
        /\ eng[r].progress.Skipped = 1
        /\ LET item == mapItem(eng[r].feedData.items[1], eng[r].feed.field_mappings).item
           IN  /\ matchingProducts(products, eng[r].feed.match_by, item) # {}
               /\ \A p \in matchingProducts(products, eng[r].feed.match_by, item) :
                     p.feed_checksum = calculateChecksum(item)

\* run r follows the completed, error-free run q of the same feed content, and
\* nothing else has touched the catalog: no other run, no other handler
rerunOf(q, r) ==
    /\ q # r
    /\ eng[q].pc = "exited"
    /\ importHistory[q].Status = "completed"
    /\ eng[q].progress.Errors = 0
    /\ eng[r].pc \in {"process", "returned"} \cup CallbackPcs
    /\ eng[r].feedData = eng[q].feedData
    /\ \A s \in Reqs \ {q, r} : eng[s].pc = "none"
    /\ admins = 0

\* C4: the second of two runs over the same unchanged feed creates nothing,
\* updates nothing, leaves the number of products as it found it and, once
\* completed, has counted every item skipped; for every match key.
RerunIsIdempotent ==
    \A q, r \in Reqs :
        rerunOf(q, r)
        => /\ eng[r].progress.Created = 0
           /\ eng[r].progress.Updated = 0
           /\ eng[r].pc # "returned" => Cardinality(products) = feedRow.total_products
           /\ (eng[r].pc = "returned" /\ importHistory[r].Status = "completed")
              => eng[r].progress.Skipped = eng[r].progress.Total

\* C5: in create_only mode an item that matches an existing product is done
\* with when the lookup has answered, whatever its fingerprint: processItem
\* goes on to count it skipped, not to update it, and nothing is written for it.
CreateOnlyNeverUpdates ==
    [][\A r \in Reqs :
          (eng[r].feed.import_mode = "create_only" /\ processesItem(r) /\ matchesOf(r) # {})
          => /\ eng'[r].pc = "skip"
             /\ products' = products
             /\ eng'[r].progress.Updated = eng[r].progress.Updated]_vars

\* C6: in update_only mode an item that matches no product is done with when
\* the lookup has answered: processItem goes on to count it skipped, nothing
\* is created for it and the created counter stays 0.
UpdateOnlyNeverCreates ==
    [][\A r \in Reqs :
          (eng[r].feed.import_mode = "update_only" /\ processesItem(r) /\ matchesOf(r) = {})
          => /\ eng'[r].pc = "skip"
             /\ products' = products
             /\ eng'[r].progress.Created = 0]_vars

\* the categories are the chain Electronics > Phones > Smartphones
phonesChain ==
    \E a, b, c \in categories :
        /\ categories = {a, b, c}
        /\ a.name = <<"Electronics">> /\ a.parent_id = NoId
        /\ b.name = <<"Phones">> /\ b.parent_id = a.id
        /\ c.name = <<"Smartphones">> /\ c.parent_id = b.id

\* C7: the path Electronics|Phones|Smartphones, the only path of the feeds
\* here, makes three categories, a parent chain, when it is first resolved, and
\* no further category when a later run resolves it again (no run being in the
\* middle of a resolution, no write having failed in either run, and no other
\* handler having been requested).
PathResolvedOnce ==
    (/\ categories # {}
     /\ admins = 0
     /\ \A r \in Reqs : eng[r].pc # "category" /\ eng[r].progress.Errors = 0)
    => Cardinality(categories) = 3 /\ phonesChain

\* the goroutine of run r exits in this step, by Run's return or by a panic
taskExits(r) ==
    /\ eng[r].pc \notin {"exited", "panicked"}
    /\ eng'[r].pc \in {"exited", "panicked"}

\* C8: when the goroutine of a run exits, after completion, failure,
\* cancellation or a panic, the feed's registry entry is gone, so the next
\* StartImport finds none; and an entry that is present belongs to a run that
\* has not exited.
ExitClearsRegistry ==
    [][/\ \A r \in Reqs : taskExits(r) => importEngines' = NoEngine
       /\ importEngines' # NoEngine
          => eng'[importEngines'].pc \notin {"none", "exited", "panicked", "killed"}]_vars

\* the first run died of a panic and, the process started again, the second
\* StartImport was accepted and its run is downloading
StartAcceptedAfterPanic ==
    /\ ~crashed
    /\ eng[1].pc = "panicked"
    /\ hpc[2] = "started"
    /\ eng[2].pc = "download"
    /\ importEngines = 2

\* the items a progress or a history row counts as created, updated, skipped
\* or failed
outcomes(p) == p.Created + p.Updated + p.Skipped + p.Errors

\* C9: a progress snapshot GetImportProgress returns is one between two
\* complete per-item updates: its processed count is the sum of its created,
\* updated, skipped and error counts.
SnapshotIsWhole ==
    observed.kind = "progress" => observed.progress.Processed = outcomes(observed.progress)

\* C10: a fatal error (the download fails, or the traversal returns an error
\* of its own) makes the run failed: failImport writes the status failed and
\* the error message to the history row, then sets the feed's status to error,
\* then sets the progress to failed with that message, which it is when Run
\* has returned (the row and the status being written while the feed has its
\* row); a failed run stays failed, and a run that has met a fatal error never
\* reports completed.
FatalErrorFailsRun ==
    [][\A r \in Reqs :
          /\ (eng[r].pc \in {"download", "process"} /\ eng'[r].pc = "fail_feed")
             => /\ eng'[r].err \notin {"", cancelError}
                /\ feedRow.exists
                   => /\ importHistory'[r].Status = "failed"
                      /\ importHistory'[r].ErrorMessage # ""
                      /\ importHistory'[r].ErrorMessage = eng'[r].history.ErrorMessage
          /\ (eng[r].pc = "fail_feed" /\ eng'[r].pc = "fail_progress" /\ feedRow.exists)
             => /\ feedRow'.status = "error"
                /\ feedRow'.last_error = eng[r].history.ErrorMessage
          /\ (eng[r].pc = "fail_progress" /\ eng'[r].pc = "returned")
             => /\ whenStored(eng'[r]).Status = "failed"
                /\ whenStored(eng'[r]).Message = eng[r].history.ErrorMessage
                /\ whenStored(eng'[r]).Message # ""
          /\ (eng'[r].pc \in {"returned", "exited"} /\ settled(eng'[r])
              /\ eng'[r].history.Status = "failed")
             => /\ eng'[r].progress.Status = "failed"
                /\ eng'[r].progress.Message = eng'[r].history.ErrorMessage
          /\ (importHistory[r].Status = "failed" /\ feedRow'.exists)
             => importHistory'[r] = importHistory[r]
          /\ eng[r].progress.Status = "failed" => eng'[r].progress.Status = "failed"
          /\ eng'[r].err \notin {"", cancelError}
             => /\ eng'[r].progress.Status # "completed"
                /\ importHistory'[r].Status # "completed"]_vars

\* a run has failed on the traversal's error and has exited
TraversalErrorFailed ==
    \E r \in Reqs :
        /\ eng[r].pc = "exited"
        /\ eng[r].err = traversalError(eng[r].feed)
        /\ eng[r].progress.Status = "failed"
        /\ eng[r].progress.Message = traversalError(eng[r].feed)
        /\ importHistory[r].Status = "failed"
        /\ importHistory[r].ErrorMessage = traversalError(eng[r].feed)
        /\ feedRow.status = "error"
        /\ feedRow.last_error = traversalError(eng[r].feed)

\* imports one after the other, for every mapping configuration, with stops
SpecItems == InitItems /\ [][Next]_vars

\* C11: a StartImport rejected because the registry holds an engine changes
\* nothing: its steps write no history row and leave the feed's status, the
\* registry, every engine (progress, counters, stop flag) and the catalog as
\* they are; it has made no engine of its own.
RejectedStartChangesNothing ==
    [][\A r \in Reqs :
          /\ (hpc[r] = "ready" /\ hpc'[r] = "selected")
             => /\ UNCHANGED <<importHistory, feedRow, importEngines, products, categories>>
                /\ eng' = [eng EXCEPT ![r].feed = feed]
          /\ (hpc[r] = "selected" /\ hpc'[r] = "conflict")
             => /\ importEngines # NoEngine
                /\ UNCHANGED <<importHistory, feedRow, importEngines, eng, products, categories>>
          /\ hpc[r] = "conflict"
             => /\ eng[r] = [NewImportEngine EXCEPT !.feed = eng[r].feed]
                /\ ~importHistory[r].exists]_vars

\* a StartImport has been rejected while a run with its stop flag set is in the
\* middle of an item
RejectedWhileRunning ==
    \E q, r \in Reqs :
        /\ hpc[r] = "conflict"
        /\ importEngines = q
        /\ eng[q].pc = "item"
        /\ eng[q].shouldStop
        /\ importHistory[q].Status = "running"
        /\ ~importHistory[r].exists

\* C12: a record that fails mapping, validation or upsert does not end the run,
\* whatever the mapping configuration: the callback is left by its return
\* alone, the record counted in one counter, the traversal at the next record
\* and the run still running.
RecordFailureAbsorbed ==
    [][\A r \in Reqs :
          (~crashed /\ eng[r].pc \in CallbackPcs /\ eng'[r].pc \notin CallbackPcs)
          => /\ ~crashed'
             /\ eng'[r].pc = "process"
             /\ eng'[r].idx = eng[r].idx + 1
             /\ eng'[r].progress.Status = "running"
             /\ outcomes(whenStored(eng'[r])) = outcomes(eng[r].progress) + 1]_vars

\* the complete items of data, in document order: the deliveries of a traversal
\* of the document cut after its last complete item and closed
RECURSIVE completeItems(_, _)
completeItems(c, k) ==
    IF k > Len(c.data) THEN c.delivered ELSE completeItems(xmlToken(c, c.data[k]), k + 1)

\* data is cut short inside an item, after at least one complete item
truncatedMidItem(data) ==
    /\ openAtEnd(data) >= 2
    /\ \E i \in 1..Len(data) : data[i].k = "end" /\ EqualFold(data[i].v, XMLItemPath)

\* C13: the full traversal of a document cut short inside an item returns nil
\* once the input is used up, having handed to the callback every complete item,
\* in order, and nothing of the partial item.
TruncatedXMLTraversalReturns ==
    (/\ call.fn = "ParseXMLFull"
     /\ truncatedMidItem(call.data)
     /\ call.pc = "loop"
     /\ call.pos > Len(call.data))
    => /\ parseXMLStep(call).pc = "returned"
       /\ parseXMLStep(call).err = ""
       /\ call.delivered = completeItems(parseXMLStart(call.data), 1)
       /\ Len(call.delivered) >= 1

\* the fields the fingerprint is to depend on
FingerprintFields == {"Title", "Description", "EAN", "Price", "ImageURL", "CategoryPath"}

\* C14: two items with the same title, description, EAN, price, image URL and
\* category path have the same fingerprint, and two items that differ in exactly
\* one of these fields have different fingerprints.
FingerprintDetermined ==
    (call.fn = "calculateChecksum" /\ call.pc = "returned")
    => /\ (\A f \in FingerprintFields : call.a[f] = call.b[f]) => call.sums[1] = call.sums[2]
       /\ Cardinality({f \in FingerprintFields : call.a[f] # call.b[f]}) = 1
          => call.sums[1] # call.sums[2]

\* C15: for the header a;b;c and three data lines of two semicolons each, with
\* or without commas in the fields and with or without a final newline, the
\* detector returns, and returns the semicolon.
SemicolonDetected ==
    (call.fn = "detectCSVDelimiter" /\ call.pc = "returned")
    => ~call.result.panics /\ call.result.best = ";"

\* the run of engine r has ended
runEnded(r) == eng[r].pc \in {"returned", "exited"}

\* C16: when a stop is requested for a run that has then processed N items, the
\* run ends with N or N + 1 items processed: no item beyond the one in flight
\* enters the callback's mapping and upsert.
StopBoundsProcessed ==
    \A r \in Reqs :
        (stopCall.engine = r /\ runEnded(r))
        => eng[r].progress.Processed \in {stopCall.processed, stopCall.processed + 1}

\* StopImport has answered "stopping" for the run of engine r, which has not
\* ended
stopAccepted(r) ==
    /\ stopResult = "stopping"
    /\ stopCall.engine = r
    /\ ~stopCall.inflight
    /\ eng[r].pc \in {"spawned", "init"} \cup RunningPcs

\* C18: a stop accepted for the registered engine is not lost: once Stop has
\* returned, the flag is set and stays set until the run ends, and the run
\* enters the callback for no further item.
AcceptedStopNeverLost ==
    [][\A r \in Reqs :
          /\ stopAccepted(r)' => eng'[r].shouldStop
          /\ stopAccepted(r)
             => whenStored(eng'[r]).Processed = whenStored(eng[r]).Processed]_vars

\* C17: the progress of a run is written by the run's goroutine alone: a step
\* of a StopImport or GetImportProgress handler leaves every engine's progress
\* (counters, message, status, log lines) as it is.
OnlyRunWritesProgress ==
    [][(~crashed /\ (stops' # stops \/ stopCall' # stopCall \/ polls' # polls
                     \/ pollCall' # pollCall))
       => \A r \in Reqs : eng'[r].progress = eng[r].progress]_vars

\* C19: the engine the registry holds has its progress: Stop and GetProgress
\* on it neither fault nor return a nil progress, whenever they are called
\* during the run's start.
RegisteredEngineHasProgress ==
    /\ importEngines # NoEngine => eng[importEngines].progress.alloc
    /\ stopResult # "panic"
    /\ observed.kind # "null"

\* the counters of q are those of p but for one, which is one more
oneCounted(p, q) ==
    /\ outcomes(q) = outcomes(p) + 1
    /\ q.Created \in {p.Created, p.Created + 1}
    /\ q.Updated \in {p.Updated, p.Updated + 1}
    /\ q.Skipped \in {p.Skipped, p.Skipped + 1}
    /\ q.Errors \in {p.Errors, p.Errors + 1}

\* C20: whenever the callback has returned (its assignments made), and from
\* the end of the traversal on (also on the history row of a completed run),
\* processed = created + updated + skipped + errors; no counter is negative or
\* ever decreases; and the callback counts each item it processes in exactly
\* one of the four, with the statements that end it and not before.
CountersConserved ==
    [][\A r \in Reqs :
          /\ (eng'[r].pc \notin CallbackPcs \cup {"killed", "panicked"} /\ settled(eng'[r]))
             => eng'[r].progress.Processed = outcomes(eng'[r].progress)
          /\ importHistory'[r].Status = "completed"
             => /\ importHistory'[r].Processed = outcomes(importHistory'[r])
                /\ importHistory'[r].Processed = eng'[r].progress.Processed
          /\ eng'[r].progress.Processed >= eng[r].progress.Processed
          /\ eng'[r].progress.Created >= eng[r].progress.Created
          /\ eng'[r].progress.Updated >= eng[r].progress.Updated
          /\ eng'[r].progress.Skipped >= eng[r].progress.Skipped
          /\ eng'[r].progress.Errors >= eng[r].progress.Errors
          /\ eng[r].progress.Created >= 0 /\ eng[r].progress.Updated >= 0
          /\ eng[r].progress.Skipped >= 0 /\ eng[r].progress.Errors >= 0
          /\ (eng[r].pc \in CallbackPcs /\ eng'[r].pc = "process")
             => /\ oneCounted(eng[r].progress, whenStored(eng'[r]))
                /\ whenStored(eng'[r]).Processed = eng[r].progress.Processed
          /\ (eng[r].pc \in CallbackPcs /\ eng'[r].pc \in CallbackPcs)
             => outcomes(eng'[r].progress) = outcomes(eng[r].progress)]_vars

\* a run stopped at its second item has ended after one item, counted as an
\* error, and an earlier run has ended with one item created and one skipped
CountedEveryOutcome ==
    \E q, r \in Reqs :
        /\ eng[r].pc = "returned"
        /\ eng[r].err = cancelError
        /\ eng[r].progress.Processed = 1
        /\ eng[r].progress.Errors = 1
        /\ eng[q].pc = "exited"
        /\ eng[q].progress.Created = 1
        /\ eng[q].progress.Skipped = 1

\* the terminal statuses of a run
TerminalStatuses == {"completed", "failed", "cancelled"}

\* C21: the status of a run goes from none (idle) to running and from running
\* to one terminal status, and makes no other change, in its progress and on
\* its history row alike (the row is written first; it goes with the feed when
\* the feed is deleted); a run that has returned, its assignments made, has
\* made its terminal transition, the same in the progress and on the row; and once the status
\* is terminal it does not change again, nor does a row whose status is
\* terminal.
StatusFollowsLifecycle ==
    [][\A r \in Reqs :
          /\ eng'[r].progress.Status # eng[r].progress.Status
             => \/ eng[r].progress.Status = "" /\ eng'[r].progress.Status = "running"
                \/ /\ eng[r].progress.Status = "running"
                   /\ eng'[r].progress.Status \in TerminalStatuses
          /\ (importHistory'[r].Status # importHistory[r].Status /\ feedRow'.exists)
             => \/ importHistory[r].Status = "" /\ importHistory'[r].Status = "running"
                \/ /\ importHistory[r].Status = "running"
                   /\ importHistory'[r].Status \in TerminalStatuses
          /\ (eng'[r].pc \in {"returned", "exited"} /\ settled(eng'[r]))
             => /\ eng'[r].progress.Status \in TerminalStatuses
                /\ importHistory'[r].exists
                   => importHistory'[r].Status = eng'[r].progress.Status
          /\ eng[r].progress.Status \in TerminalStatuses
             => eng'[r].progress.Status = eng[r].progress.Status
          /\ importHistory[r].Status \in TerminalStatuses
             => /\ feedRow'.exists => importHistory'[r] = importHistory[r]
                /\ eng'[r].progress.Status \in {"running", importHistory[r].Status}]_vars

\* a failed run has exited, and a later run has completed and has then been
\* sent a stop request, whose line is the last of its log
TerminalStatusesReached ==
    \E q, r \in Reqs :
        /\ eng[q].pc = "exited"
        /\ eng[q].progress.Status = "failed"
        /\ importHistory[q].Status = "failed"
        /\ eng[r].pc = "returned"
        /\ eng[r].progress.Status = "completed"
        /\ importHistory[r].Status = "completed"
        /\ eng[r].progress.Logs[Len(eng[r].progress.Logs)] = <<"info", "Stop requested">>

\* the full traversals
Traversals == {"ParseXMLFull", "ParseCSVFull", "ParseJSONFull"}

\* C22: in each of the three full traversals, once the callback has returned an
\* error the traversal has returned, with that same error, and the callback is
\* called for no later item: the call that failed is the last one.
CallbackErrorStopsTraversal ==
    [][(call.fn \in Traversals /\ call.failAt > 0)
       => /\ Len(call.delivered) = call.failAt
             => /\ call.pc = "returned"
                /\ call.err = callbackError
                /\ call' = call
          /\ Len(call'.delivered) <= call.failAt]_vars

\* the XML traversal has returned the error of its callback's first call, with
\* the second item of the document not yet read
CallbackErrorReturned ==
    /\ call.fn = "ParseXMLFull"
    /\ call.data = xmlDocument("SHOPITEM")
    /\ call.failAt = 1
    /\ call.pc = "returned"
    /\ call.err = callbackError
    /\ Len(call.delivered) = 1
    /\ call.pos <= Len(xmlItem("SHOPITEM", "A", "e1")) + 2

\* C23: after any sequence of resolutions no segment name has more than one
\* category node under the same parent: paths that share their leading
\* segments share the nodes of these segments.
SegmentHasOneNode ==
    call.fn = "getOrCreateCategory"
    => \A c, d \in call.cats : (c.name = d.name /\ c.parent_id = d.parent_id) => c.id = d.id

\* C24: within one run every resolution of the same path returns the same leaf
\* id, and the resolution of a path resolved before in the run makes no lookup
\* (no slug is made for one: no uuid is drawn) and creates no category.
ResolutionMonotonic ==
    [][call.fn = "getOrCreateCategory"
       => /\ \A i, j \in 1..Len(call'.ids) :
                call.paths[i] = call.paths[j] => call'.ids[i] = call'.ids[j]
          /\ (\E j \in 1..(call.pos - 1) : call.paths[j] = call.paths[call.pos])
             => /\ call'.cats = call.cats
                /\ call'.n = call.n]_vars

\* a path of two segments has been resolved to its two new nodes, then another
\* path, then the first path again, to the same leaf
SamePathResolvedAgain ==
    /\ call.fn = "getOrCreateCategory"
    /\ Len(call.ids) = 3
    /\ call.paths[1] = <<"Electronics", "|", "Phones">>
    /\ call.paths[2] = <<"Electronics", "|", "Audio">>
    /\ call.paths[3] = call.paths[1]
    /\ call.ids[1] # NoId
    /\ call.ids[3] = call.ids[1]
    /\ call.ids[2] # call.ids[1]
    /\ Cardinality(call.cats) = 4

\* C25: a path with no "|" that is written with " > " or with "/" resolves to
\* a chain of two nodes, the second segment a child of the first, and not to
\* one node named after the whole string.
ArrowAndSlashPathsSplit ==
    (/\ call.fn = "getOrCreateCategory"
     /\ Len(call.ids) >= 1
     /\ call.paths[1] \in {<<"A", " > ", "B">>, <<"A", "/", "B">>})
    => \E a, b \in call.cats :
          /\ a.name = <<"A">> /\ a.parent_id = NoId
          /\ b.name = <<"B">> /\ b.parent_id = a.id
          /\ call.ids[1] = b.id

\* the run of engine r has its stop flag set and has entered the callback
\* for no item
stopPending(r) ==
    /\ eng[r].shouldStop
    /\ eng[r].pc \in {"download", "count", "process", "complete_feed", "complete_counts",
                      "complete_progress", "fail_feed", "fail_progress", "returned"}
    /\ eng[r].progress.Processed = 0

\* C26: a stop requested while the run downloads stays pending through the
\* download and the count, which go on, and takes effect when the process
\* traversal begins: the run enters the callback's body for no item, its steps
\* write no product and no category, and it ends with processed = 0 (or is
\* ended by a fault of the download or the count, or with the process).
StopInDownloadProcessesNothing ==
    [][\A r \in Reqs :
          /\ (eng[r].pc = "download" /\ ~eng[r].shouldStop /\ eng'[r].shouldStop)
             => stopPending(r)'
          /\ stopPending(r)
             => /\ eng'[r].shouldStop
                /\ eng'[r].pc \notin CallbackPcs
                /\ eng'[r].progress.Processed = 0
                /\ outcomes(eng'[r].progress) = 0
                /\ importHistory'[r].Processed = 0
                /\ eng'[r] # eng[r]
                   => /\ products' = products
                      /\ {c.id : c \in categories'} = {c.id : c \in categories}]_vars

\* a run whose stop was logged before the feed was downloaded has counted its
\* item and has ended at the first callback, with nothing processed or written
StoppedInDownloadEnded ==
    \E r \in Reqs :
        /\ eng[r].pc = "returned"
        /\ eng[r].err = cancelError
        /\ stopResult = "stopping"
        /\ stopCall.engine = r
        /\ Len(eng[r].progress.Logs) >= 3
        /\ eng[r].progress.Logs[2] = <<"info", "Stop requested">>
        /\ eng[r].progress.Logs[3] = <<"info", "Feed downloaded">>
        /\ eng[r].progress.Total = 1
        /\ eng[r].progress.Processed = 0
        /\ importHistory[r].TotalItems = 1
        /\ importHistory[r].Processed = 0
        /\ products = {}
        /\ categories = {}

\* C27: in every state of a run processed <= total and the percentage is
\* within 0..100; a run that has completed with no stop request seen by its
\* callback has processed = total, in its progress and in its history row.
ProcessedWithinTotal ==
    \A r \in Reqs :
        /\ eng[r].progress.Processed <= eng[r].progress.Total
        /\ eng[r].progress.Percent \in 0..100
        /\ (runEnded(r) /\ eng[r].progress.Status = "completed" /\ eng[r].err = "")
           => /\ eng[r].progress.Processed = eng[r].progress.Total
              /\ importHistory[r].exists
                 => /\ importHistory[r].Processed = importHistory[r].TotalItems
                    /\ importHistory[r].TotalItems = eng[r].progress.Total

\* a run has completed with its two items processed, at 100 percent, and a
\* later run, stopped after its first item, has ended at 50 percent
ProcessedReachedTotal ==
    \E q, r \in Reqs :
        /\ eng[q].pc = "exited"
        /\ eng[q].err = ""
        /\ eng[q].progress.Status = "completed"
        /\ eng[q].progress.Total = 2
        /\ eng[q].progress.Processed = 2
        /\ eng[q].progress.Percent = 100
        /\ importHistory[q].Processed = 2
        /\ eng[r].pc = "returned"
        /\ eng[r].err = cancelError
        /\ eng[r].progress.Total = 2
        /\ eng[r].progress.Processed = 1
        /\ eng[r].progress.Percent = 50

\* C28: during the process traversal, whenever the callback has returned with
\* the processed counter at a multiple of 50, the percentage is the one of
\* that moment, floor(processed * 100 / total), whatever the outcome of the
\* item.
ProgressRecomputedEvery50 ==
    \A r \in Reqs :
        (/\ eng[r].pc = "process"
         /\ settled(eng[r])
         /\ eng[r].progress.Processed > 0
         /\ eng[r].progress.Processed % ProgressEvery = 0)
        => eng[r].progress.Percent
           = (eng[r].progress.Processed * 100) \div eng[r].progress.Total

\* C30: two calls of AutoDetectMappings on the same list of field names return
\* the same list of mappings, and a list holds no more mappings of a source
\* field than the field has occurrences, also for a field name that matches
\* the patterns of more than one target.
AutoDetectDeterministic ==
    (call.fn = "AutoDetectMappings" /\ Len(call.results) = 2)
    => /\ call.results[1] = call.results[2]
       /\ \A k \in 1..2 : \A f \in FieldNames :
             Cardinality({i \in 1..Len(call.results[k]) : call.results[k][i].SourceField = f})
             <= Cardinality({i \in 1..Len(call.fields) : call.fields[i] = f})

\* functions of the parser and of the engine called on their own
NextCalls ==
    \/ ParseXMLFull
    \/ ParseCSVFull
    \/ ParseJSONFull
    \/ GetOrCreateCategory
    \/ AutoMapping
    \/ CalculateChecksum
    \/ DetectCSVDelimiter

SpecCalls == InitCalls /\ [][NextCalls]_vars

\* ParseXMLFull is called on a document, with a callback that returns nil
InitXMLCalls ==
    /\ InitCalls
    /\ call \in {parseXMLStart(data) : data \in XMLDocs}

\* ParseXMLFull alone, the goroutine that executes it being scheduled for as
\* long as the loop has a pass to make
SpecXMLLive == InitXMLCalls /\ [][ParseXMLFull]_vars /\ WF_vars(ParseXMLFull)

\* C29: the XML traversal terminates on every input: also where the decoder
\* reports an error other than the end of the input, on this call and on every
\* later one, the traversal returns after finitely many passes of its loop.
XMLTraversalTerminates == <>(call.pc = "returned")

====
